---- MODULE Spec2Model ----
(***************************************************************************)
(* A model of the stock-search engine (package search): the Bleve-backed   *)
(* catalog store, the regular and the semantic (thematic) search path and  *)
(* the symbol lookups; of its construction and of main's start and exit;   *)
(* of the HTTP handlers that call it and of the price providers behind    *)
(* /api/stock; of the CSV loader; and of the search box of the web client. *)
(*                                                                         *)
(* Strings are sequences of one-character strings, so that lower-casing,   *)
(* tokenisation, prefix and substring matching are computed, not assumed.  *)
(* Scores are integers: a popularity or a text score s stands for s/100,   *)
(* a final score f for f/1000, so that                                     *)
(*   finalScore = textScore*0.7 + popularityScore*0.3                      *)
(* is  TextWeight*text + PopularityWeight*popularity  without rounding.    *)
(***************************************************************************)
EXTENDS Integers, Sequences, FiniteSets, TLC

VARIABLES
    index,          \* BleveEngine.index: the documents, in the store's internal order
    semantic,       \* BleveEngine.semantic: the sector mappings, or Nil
    op,             \* the operation a caller is in, "none" between calls
    args,           \* its arguments
    storeLog,       \* the requests it sent to index.Search, with the store's answers
    path,           \* the branch it took
    scoredResults,  \* Search: the scoredResults slice after the sort
    results,        \* Search: the returned []models.Stock
    found,          \* GetBySymbol / GetStock: the returned *models.Stock, or Nil
    built,          \* the documents the store held when construction ended
    prev,           \* the query and the list of the call before, when this call repeats it
    calls,          \* the calls of concurrent callers, each with its own locals
    pc,             \* main: "start", "serving", "failed" (no engine), "exited"
    existing,       \* the store found at the index path when the process started, if any
    stocks,         \* main: allStocks, the list handed to NewBleveEngine
    closes,         \* how many times BleveEngine.Close has run
    http,           \* the response of the HTTP handler, Nil while none is written
    contacts,       \* the calls out of the process (credential reads, logins, candle and
                    \* chart requests) and the mock data made for the request at hand
    client,         \* an AngelOneClient kept by a user of the package: jwtToken, tokenTime
    angelCall,      \* the last call of the Angel One code: its client before and after
    now,            \* the clock, in minutes
    lastLogin,      \* when the process last logged in to Angel One with success, if ever
    remote,         \* what the credential provider, Angel One and Yahoo answer at present
    file,           \* loader: the CSV file handed to LoadStocks, as its records
    loaded,         \* loader: what the last call of the loader returned
    box,            \* web client: the value of the search input
    debounceTimer,  \* web client: the pending timeout and the query it will fetch
    inflight,       \* web client: the /search requests awaiting their response
    shown           \* web client: what resultsContainer shows

\* the state of the price providers, of the loader and of the web client
angelVars == <<client, angelCall, now, lastLogin, remote>>
loaderVars == <<file, loaded>>
pageVars == <<box, debounceTimer, inflight, shown>>
beyond == <<angelVars, loaderVars, pageVars>>

vars == <<index, semantic, op, args, storeLog, path, scoredResults, results, found,
          built, prev, calls, pc, existing, stocks, closes, http, contacts, beyond>>

\* what a call of the engine leaves alone
rest == <<index, semantic, built, calls, pc, existing, stocks, closes, http, contacts, beyond>>

\* the nil pointer
Nil == [nil |-> TRUE]

---------------------------------------------------------------------------
(* Bounds *)

MaxDocs == 3        \* documents in the store
MaxClock == 10      \* minutes the clock runs
MaxRows == 3        \* records of a CSV file
MaxInFlight == 3    \* requests of the page under way at once

---------------------------------------------------------------------------
(* Strings *)

UpperLetters == <<"A","B","C","D","E","F","G","H","I","J","K","L","M",
                  "N","O","P","Q","R","S","T","U","V","W","X","Y","Z">>
LowerLetters == <<"a","b","c","d","e","f","g","h","i","j","k","l","m",
                  "n","o","p","q","r","s","t","u","v","w","x","y","z">>

Range(s) == {s[i] : i \in 1..Len(s)}

IsUpper(c) == c \in Range(UpperLetters)
IsLower(c) == c \in Range(LowerLetters)

LowerOf ==
    [c \in Range(UpperLetters) |->
        LowerLetters[CHOOSE i \in 1..Len(UpperLetters) : UpperLetters[i] = c]]

ToLowerChar(c) == IF IsUpper(c) THEN LowerOf[c] ELSE c

\* strings.ToLower
ToLower(s) == [i \in 1..Len(s) |-> ToLowerChar(s[i])]

UpperOf ==
    [c \in Range(LowerLetters) |->
        UpperLetters[CHOOSE i \in 1..Len(LowerLetters) : LowerLetters[i] = c]]

ToUpperChar(c) == IF IsLower(c) THEN UpperOf[c] ELSE c

\* strings.ToUpper
ToUpper(s) == [i \in 1..Len(s) |-> ToUpperChar(s[i])]

\* strings.HasPrefix
HasPrefix(s, p) == Len(p) <= Len(s) /\ SubSeq(s, 1, Len(p)) = p

\* strings.Contains
Contains(s, sub) ==
    \E i \in 0..(Len(s) - Len(sub)) : SubSeq(s, i + 1, i + Len(sub)) = sub

\* strings.EqualFold (ASCII)
EqualFold(s, t) == ToLower(s) = ToLower(t)

---------------------------------------------------------------------------
(* models.Stock *)

\* the zero value of a string field
Empty == << >>

Stock(sym, name, exch, brand, sector, pop) ==
    [Symbol |-> sym, Name |-> name, Exchange |-> exch,
     Type |-> <<"S","t","o","c","k">>, Brand |-> brand, Sector |-> sector,
     Industry |-> Empty, Tags |-> Empty, PopularityScore |-> pop]

---------------------------------------------------------------------------
(* The catalog store: a Bleve index whose symbol, name, exchange, type and  *)
(* brand fields are dynamic text fields, analysed by the index mapping's    *)
(* default ("standard") analyzer: split into maximal runs of letters and    *)
(* digits, lower-cased. (Its English stop-word filter is left out: no word  *)
(* of this model is a stop word.)                                           *)

Digits == {"0","1","2","3","4","5","6","7","8","9"}

IsTokenChar(c) == IsUpper(c) \/ IsLower(c) \/ c \in Digits

RECURSIVE Tokens(_, _, _)
Tokens(s, cur, acc) ==
    IF s = << >>
    THEN IF cur = << >> THEN acc ELSE Append(acc, cur)
    ELSE IF IsTokenChar(Head(s))
         THEN Tokens(Tail(s), Append(cur, Head(s)), acc)
         ELSE Tokens(Tail(s), << >>, IF cur = << >> THEN acc ELSE Append(acc, cur))

\* the terms the analyzer files a text under
Analyze(s) == Range(Tokens(ToLower(s), << >>, << >>))

\* the document key: fmt.Sprintf("%s-%s", stock.Symbol, stock.Exchange)
DocID(stock) == stock.Symbol \o <<"-">> \o stock.Exchange

TextFields == {"symbol", "name", "exchange", "type", "brand", "sector", "industry", "tags"}
NumericFields == {"popularity_score"}

\* the Go type a stored field comes back with in hit.Fields
KindOf(f) == IF f \in NumericFields THEN "float64" ELSE "string"

\* batch.Index(id, stock): the stored fields (under their json names), the
\* type each comes back with, and the indexed terms of each text field
IndexDoc(stock) ==
    LET stored == [symbol |-> stock.Symbol, name |-> stock.Name,
                   exchange |-> stock.Exchange, type |-> stock.Type,
                   brand |-> stock.Brand, sector |-> stock.Sector,
                   industry |-> stock.Industry, tags |-> stock.Tags,
                   popularity_score |-> stock.PopularityScore]
    IN [id |-> DocID(stock),
        stored |-> stored,
        kinds |-> [f \in TextFields \cup NumericFields |-> KindOf(f)],
        terms |-> [f \in TextFields |-> Analyze(stored[f])]]

---------------------------------------------------------------------------
(* Queries *)

DefaultBoost == 100     \* a query's boost when SetBoost is not called: 1.0

TermQuery(field, term, boost) ==
    [kind |-> "term", field |-> field, text |-> term, boost |-> boost]
PrefixQuery(field, prefix, boost) ==
    [kind |-> "prefix", field |-> field, text |-> prefix, boost |-> boost]
MatchQuery(field, text, boost) ==
    [kind |-> "match", field |-> field, text |-> text, boost |-> boost]
WildcardQuery(field, pattern, boost) ==
    [kind |-> "wildcard", field |-> field, text |-> pattern, boost |-> boost]
DisjunctionQuery(clauses) == [kind |-> "disjunction", clauses |-> clauses]
ConjunctionQuery(clauses) == [kind |-> "conjunction", clauses |-> clauses]

SearchRequest(query, fields, size) == [query |-> query, fields |-> fields, size |-> size]

\* a wildcard pattern against one term: * is any run of characters, ? any one
RECURSIVE Glob(_, _)
Glob(p, t) ==
    IF p = << >> THEN t = << >>
    ELSE IF Head(p) = "*"
         THEN Glob(Tail(p), t) \/ (t # << >> /\ Glob(p, Tail(t)))
         ELSE /\ t # << >>
              /\ (Head(p) = "?" \/ Head(p) = Head(t))
              /\ Glob(Tail(p), Tail(t))

\* whether a leaf clause matches a document; term, prefix and wildcard queries
\* are not analysed and are compared with the indexed terms, a match query is
\* analysed like the field and matches when any of its terms is indexed
LeafMatches(doc, c) ==
    LET terms == doc.terms[c.field] IN
    CASE c.kind = "term"     -> c.text \in terms
      [] c.kind = "prefix"   -> \E t \in terms : HasPrefix(t, c.text)
      [] c.kind = "wildcard" -> \E t \in terms : Glob(c.text, t)
      [] c.kind = "match"    -> Analyze(c.text) \cap terms # {}

Matches(doc, q) ==
    CASE q.kind = "disjunction" -> \E i \in 1..Len(q.clauses) : LeafMatches(doc, q.clauses[i])
      [] q.kind = "conjunction" -> \A i \in 1..Len(q.clauses) : LeafMatches(doc, q.clauses[i])
      [] OTHER                  -> LeafMatches(doc, q)

RECURSIVE SumBoosts(_, _, _)
SumBoosts(doc, clauses, i) ==
    IF i > Len(clauses) THEN 0
    ELSE (IF LeafMatches(doc, clauses[i]) THEN clauses[i].boost ELSE 0)
         + SumBoosts(doc, clauses, i + 1)

\* hit.Score: the text relevance of a matching document, the sum of the boosts
\* of the clauses it satisfies
TextScore(doc, q) ==
    IF q.kind \in {"disjunction", "conjunction"}
    THEN SumBoosts(doc, q.clauses, 1)
    ELSE q.boost

Hit(doc, req) ==
    [id |-> doc.id,
     score |-> TextScore(doc, req.query),
     fields |-> [f \in req.fields \cap DOMAIN doc.stored |->
                    [kind |-> doc.kinds[f], val |-> doc.stored[f]]]]

\* the store ranks by score, descending; equal scores keep the internal order
RECURSIVE InsertHit(_, _)
InsertHit(sorted, h) ==
    IF sorted = << >> THEN <<h>>
    ELSE IF Head(sorted).score >= h.score
         THEN <<Head(sorted)>> \o InsertHit(Tail(sorted), h)
         ELSE <<h>> \o sorted

RECURSIVE RankHits(_, _, _)
RankHits(idx, req, i) ==
    IF i = 0 THEN << >>
    ELSE IF Matches(idx[i], req.query)
         THEN InsertHit(RankHits(idx, req, i - 1), Hit(idx[i], req))
         ELSE RankHits(idx, req, i - 1)

Take(s, n) == IF Len(s) <= n THEN s ELSE SubSeq(s, 1, n)

\* index.Search(searchRequest) when the store raises no error
IndexSearch(idx, req) == Take(RankHits(idx, req, Len(idx)), req.size)

\* one entry of storeLog: the request, whether the store answered with an
\* error, and the hits it answered with otherwise
StoreCall(idx, req, err) ==
    [request |-> req, err |-> err,
     hits |-> IF err THEN << >> ELSE IndexSearch(idx, req)]

---------------------------------------------------------------------------
(* The sector mappings (SemanticSearch) *)

\* the phrasing that marks a query as thematic
SemanticPatterns == { <<"t","o","p">>, <<"b","e","s","t">> }

\* sector -> trigger keywords, sector -> member symbols
SectorMappings ==
    [keywords |->
        [banking |-> { <<"b","a","n","k">> },
         auto    |-> { <<"a","u","t","o">> },
         pharma  |-> { <<"p","h","a","r","m","a">> }],
     stocks |->
        [banking |-> << <<"H","D","F","C","B","A","N","K">>,
                        <<"I","C","I","C","I","B","A","N","K">> >>,
         auto    |-> << <<"M","&","M">> >>,
         pharma  |-> << >>]]

SectorNames == <<"auto", "banking", "pharma">>

IsSemanticQuery(sem, query) ==
    \E p \in SemanticPatterns : Contains(ToLower(query), p)

RECURSIVE SectorsFrom(_, _, _)
SectorsFrom(sem, query, i) ==
    IF i > Len(SectorNames) THEN << >>
    ELSE (IF \E k \in sem.keywords[SectorNames[i]] : Contains(ToLower(query), k)
          THEN <<SectorNames[i]>> ELSE << >>)
         \o SectorsFrom(sem, query, i + 1)

\* the sectors whose keywords appear in the query
ExtractSectors(sem, query) == SectorsFrom(sem, query, 1)

RECURSIVE AppendNew(_, _)
AppendNew(acc, syms) ==
    IF syms = << >> THEN acc
    ELSE AppendNew(IF Head(syms) \in Range(acc) THEN acc ELSE Append(acc, Head(syms)),
                   Tail(syms))

RECURSIVE SymbolsFrom(_, _, _)
SymbolsFrom(sem, sectors, i) ==
    IF i = 0 THEN << >>
    ELSE AppendNew(SymbolsFrom(sem, sectors, i - 1), sem.stocks[sectors[i]])

\* the union of the sectors' member symbols
GetStockSymbolsForSectors(sem, sectors) == SymbolsFrom(sem, sectors, Len(sectors))

---------------------------------------------------------------------------
(* BleveEngine *)

TextWeight == 7             \* finalScore = textScore * 0.7 ...
PopularityWeight == 3       \*            + popularityScore * 0.3
SearchSize == 100           \* searchRequest.Size of both search paths
LookupSize == 1             \* searchRequest.Size of GetBySymbol and GetStock

BoostExact == 1000          \* exactQuery.SetBoost(10.0)
BoostPrefix == 500          \* prefixQuery.SetBoost(5.0)
BoostNameMatch == 300       \* nameMatchQuery.SetBoost(3.0)
BoostWildcardSymbol == 200  \* wildcardSymbol.SetBoost(2.0)
BoostWildcardName == 150    \* wildcardName.SetBoost(1.5)
BoostWildcardBrand == 100   \* wildcardBrand.SetBoost(1.0)

SearchFields == {"symbol", "name", "exchange", "type", "brand", "sector",
                 "industry", "tags", "popularity_score"}
LookupFields == {"symbol", "name", "exchange", "type", "brand", "popularity_score"}

\* a getString that takes the value of whatever type
getStringAnyKind(fields, key) ==
    IF key \in DOMAIN fields THEN fields[key].val ELSE Empty

\* if val, ok := fields[key].(string); ok { return val }; return ""
getString(fields, key) ==
    IF key \in DOMAIN fields /\ fields[key].kind = "string" THEN fields[key].val ELSE Empty

\* if val, ok := fields[key].(float64); ok { return val }; return 0.0
getFloat(fields, key) ==
    IF key \in DOMAIN fields /\ fields[key].kind = "float64" THEN fields[key].val ELSE 0

\* the models.Stock both search paths build from a hit
SearchStock(fields) ==
    [Symbol |-> getString(fields, "symbol"), Name |-> getString(fields, "name"),
     Exchange |-> getString(fields, "exchange"), Type |-> getString(fields, "type"),
     Brand |-> getString(fields, "brand"), Sector |-> getString(fields, "sector"),
     Industry |-> getString(fields, "industry"), Tags |-> getString(fields, "tags"),
     PopularityScore |-> getFloat(fields, "popularity_score")]

\* the models.Stock GetBySymbol and GetStock build from a hit
LookupStock(fields) ==
    [Symbol |-> getString(fields, "symbol"), Name |-> getString(fields, "name"),
     Exchange |-> getString(fields, "exchange"), Type |-> getString(fields, "type"),
     Brand |-> getString(fields, "brand"), Sector |-> Empty,
     Industry |-> Empty, Tags |-> Empty,
     PopularityScore |-> getFloat(fields, "popularity_score")]

\* the sort of both search paths:
\*   for i := 0; i < n; i++ { for j := i+1; j < n; j++ {
\*       if s[j].FinalScore > s[i].FinalScore { s[i], s[j] = s[j], s[i] } } }
Swap(s, i, j) == [s EXCEPT ![i] = s[j], ![j] = s[i]]

RECURSIVE SortInner(_, _, _)
SortInner(s, i, j) ==
    IF j > Len(s) THEN s
    ELSE SortInner(IF s[j].FinalScore > s[i].FinalScore THEN Swap(s, i, j) ELSE s,
                   i, j + 1)

RECURSIVE SortOuter(_, _)
SortOuter(s, i) ==
    IF i > Len(s) THEN s ELSE SortOuter(SortInner(s, i, i + 1), i + 1)

\* a sort whose outer loop runs once
SortScoredOnePass(s) == SortInner(s, 1, 2)

\* the same exchange sort with the comparison turned round
RECURSIVE SortInnerAscending(_, _, _)
SortInnerAscending(s, i, j) ==
    IF j > Len(s) THEN s
    ELSE SortInnerAscending(IF s[j].FinalScore < s[i].FinalScore THEN Swap(s, i, j) ELSE s,
                            i, j + 1)

RECURSIVE SortOuterAscending(_, _)
SortOuterAscending(s, i) ==
    IF i > Len(s) THEN s ELSE SortOuterAscending(SortInnerAscending(s, i, i + 1), i + 1)

SortScoredAscending(s) == SortOuterAscending(s, 1)

SortScored(s) == SortOuter(s, 1)

\* an extraction that leaves the last scored stock out
StocksButLast(scored) == [i \in 1..(Len(scored) - 1) |-> scored[i].Stock]

Stocks(scored) == [i \in 1..Len(scored) |-> scored[i].Stock]

\* what an operation leaves behind
Outcome(p, log, scored) ==
    [path |-> p, storeLog |-> log, scoredResults |-> scored, results |-> Stocks(scored)]

\* the six weighted clauses of the regular path
RegularQuery(query) ==
    LET q == ToLower(query)
        w == <<"*">> \o q \o <<"*">>
    IN DisjunctionQuery(<<
           TermQuery("symbol", q, BoostExact),
           PrefixQuery("symbol", q, BoostPrefix),
           MatchQuery("name", query, BoostNameMatch),
           WildcardQuery("symbol", w, BoostWildcardSymbol),
           WildcardQuery("name", w, BoostWildcardName),
           WildcardQuery("brand", w, BoostWildcardBrand) >>)

\* a blend that leaves the text relevance out
RegularFinalScorePopularityOnly(textScore, popularityScore) ==
    popularityScore * PopularityWeight

RegularFinalScore(textScore, popularityScore) ==
    (textScore * TextWeight) + (popularityScore * PopularityWeight)

RegularScored(hit) ==
    LET popularityScore == getFloat(hit.fields, "popularity_score") IN
    [Stock |-> SearchStock(hit.fields),
     TextScore |-> hit.score,
     FinalScore |-> RegularFinalScore(hit.score, popularityScore)]

regularSearch(idx, query, err, p) ==
    LET call == StoreCall(idx, SearchRequest(RegularQuery(query), SearchFields, SearchSize), err)
    IN IF call.err
       THEN Outcome(Append(p, "regularSearch"), <<call>>, << >>)
       ELSE Outcome(Append(p, "regularSearch"), <<call>>,
                    SortScored([i \in 1..Len(call.hits) |-> RegularScored(call.hits[i])]))

\* the target symbols queried as written, not lower-cased
SemanticQueryNoLower(targetSymbols) ==
    DisjunctionQuery([i \in 1..Len(targetSymbols) |->
                        TermQuery("symbol", targetSymbols[i], DefaultBoost)])

\* the disjunction of one exact-symbol clause per target symbol
SemanticQuery(targetSymbols) ==
    DisjunctionQuery([i \in 1..Len(targetSymbols) |->
                        TermQuery("symbol", ToLower(targetSymbols[i]), DefaultBoost)])

\* the blend of the regular path, used on the semantic path
SemanticFinalScoreBlend(textScore, popularityScore) ==
    RegularFinalScore(textScore, popularityScore)

SemanticFinalScore(textScore, popularityScore) == popularityScore

SemanticScored(hit) ==
    LET popularityScore == getFloat(hit.fields, "popularity_score") IN
    [Stock |-> SearchStock(hit.fields),
     TextScore |-> hit.score,
     FinalScore |-> SemanticFinalScore(hit.score, popularityScore)]

\* semanticSearch without the fallback to the regular path
semanticSearchNoFallback(idx, sem, query, err) ==
    LET sectors == ExtractSectors(sem, query)
        targetSymbols == GetStockSymbolsForSectors(sem, sectors)
        call == StoreCall(idx, SearchRequest(SemanticQuery(targetSymbols), SearchFields, SearchSize), err)
    IN IF Len(sectors) = 0
       THEN Outcome(<<"semanticSearch">>, << >>, << >>)
       ELSE IF Len(targetSymbols) = 0
       THEN Outcome(<<"semanticSearch">>, << >>, << >>)
       ELSE IF call.err
       THEN Outcome(<<"semanticSearch">>, <<call>>, << >>)
       ELSE Outcome(<<"semanticSearch">>, <<call>>,
                    SortScored([i \in 1..Len(call.hits) |-> SemanticScored(call.hits[i])]))

\* semanticSearch falling back to the regular path on an empty symbol union too
semanticSearchFallbackOnEmpty(idx, sem, query, err) ==
    LET sectors == ExtractSectors(sem, query)
        targetSymbols == GetStockSymbolsForSectors(sem, sectors)
        call == StoreCall(idx, SearchRequest(SemanticQuery(targetSymbols), SearchFields, SearchSize), err)
    IN IF Len(sectors) = 0
       THEN regularSearch(idx, query, err, <<"semanticSearch">>)
       ELSE IF Len(targetSymbols) = 0
       THEN regularSearch(idx, query, err, <<"semanticSearch">>)
       ELSE IF call.err
       THEN Outcome(<<"semanticSearch">>, <<call>>, << >>)
       ELSE Outcome(<<"semanticSearch">>, <<call>>,
                    SortScored([i \in 1..Len(call.hits) |-> SemanticScored(call.hits[i])]))

\* semanticSearch answering a store error with the regular path's results
semanticSearchRetryOnErr(idx, sem, query, err) ==
    LET sectors == ExtractSectors(sem, query)
        targetSymbols == GetStockSymbolsForSectors(sem, sectors)
        call == StoreCall(idx, SearchRequest(SemanticQuery(targetSymbols), SearchFields, SearchSize), err)
    IN IF Len(sectors) = 0
       THEN regularSearch(idx, query, err, <<"semanticSearch">>)
       ELSE IF Len(targetSymbols) = 0
       THEN Outcome(<<"semanticSearch">>, << >>, << >>)
       ELSE IF call.err
       THEN [regularSearch(idx, query, FALSE, <<"semanticSearch">>) EXCEPT !.storeLog = <<call>>]
       ELSE Outcome(<<"semanticSearch">>, <<call>>,
                    SortScored([i \in 1..Len(call.hits) |-> SemanticScored(call.hits[i])]))

semanticSearch(idx, sem, query, err) ==
    LET sectors == ExtractSectors(sem, query)
        targetSymbols == GetStockSymbolsForSectors(sem, sectors)
        call == StoreCall(idx, SearchRequest(SemanticQuery(targetSymbols), SearchFields, SearchSize), err)
    IN IF Len(sectors) = 0
       THEN regularSearch(idx, query, err, <<"semanticSearch">>)
       ELSE IF Len(targetSymbols) = 0
       THEN Outcome(<<"semanticSearch">>, << >>, << >>)
       ELSE IF call.err
       THEN Outcome(<<"semanticSearch">>, <<call>>, << >>)
       ELSE Outcome(<<"semanticSearch">>, <<call>>,
                    SortScored([i \in 1..Len(call.hits) |-> SemanticScored(call.hits[i])]))

\* BleveEngine.Search
\* a Search that asks the resolver without looking whether there is one
EngineSearchUnguarded(idx, sem, query, err) ==
    IF sem = Nil
    THEN Outcome(<<"nil pointer dereference">>, << >>, << >>)
    ELSE IF IsSemanticQuery(sem, query)
    THEN semanticSearch(idx, sem, query, err)
    ELSE regularSearch(idx, query, err, << >>)

EngineSearch(idx, sem, query, err) ==
    IF sem # Nil /\ IsSemanticQuery(sem, query)
    THEN semanticSearch(idx, sem, query, err)
    ELSE regularSearch(idx, query, err, << >>)

\* what a lookup leaves behind
Lookup(p, log, stock) == [path |-> p, storeLog |-> log, found |-> stock]

\* BleveEngine.GetBySymbol
GetBySymbolFrom(idx, symbol, err, p, log) ==
    LET termQuery == TermQuery("symbol", ToLower(symbol), DefaultBoost)
        call == StoreCall(idx, SearchRequest(termQuery, LookupFields, LookupSize), err)
    IN IF call.err \/ Len(call.hits) = 0
       THEN Lookup(Append(p, "GetBySymbol"), Append(log, call), Nil)
       ELSE Lookup(Append(p, "GetBySymbol"), Append(log, call), LookupStock(call.hits[1].fields))

EngineGetBySymbol(idx, symbol, err) == GetBySymbolFrom(idx, symbol, err, << >>, << >>)

\* GetStock without the fallback to GetBySymbol
EngineGetStockNoFallback(idx, symbol, exchange, err1, err2) ==
    LET query == ConjunctionQuery(<<
                     TermQuery("symbol", ToLower(symbol), DefaultBoost),
                     TermQuery("exchange", ToLower(exchange), DefaultBoost) >>)
        call == StoreCall(idx, SearchRequest(query, LookupFields, LookupSize), err1)
    IN IF exchange # Empty
       THEN IF ~call.err /\ Len(call.hits) > 0
            THEN Lookup(<<"GetStock">>, <<call>>, LookupStock(call.hits[1].fields))
            ELSE Lookup(<<"GetStock">>, <<call>>, Nil)
       ELSE GetBySymbolFrom(idx, symbol, err2, <<"GetStock">>, << >>)

\* BleveEngine.GetStock; err1 is the store's answer to the conjunctive query,
\* err2 its answer to the query of the fallback
EngineGetStock(idx, symbol, exchange, err1, err2) ==
    LET query == ConjunctionQuery(<<
                     TermQuery("symbol", ToLower(symbol), DefaultBoost),
                     TermQuery("exchange", ToLower(exchange), DefaultBoost) >>)
        call == StoreCall(idx, SearchRequest(query, LookupFields, LookupSize), err1)
    IN IF exchange # Empty
       THEN IF ~call.err /\ Len(call.hits) > 0
            THEN Lookup(<<"GetStock">>, <<call>>, LookupStock(call.hits[1].fields))
            ELSE GetBySymbolFrom(idx, symbol, err2, <<"GetStock">>, <<call>>)
       ELSE GetBySymbolFrom(idx, symbol, err2, <<"GetStock">>, << >>)

---------------------------------------------------------------------------
(* The catalog and the requests *)

HDFCBANK == <<"H","D","F","C","B","A","N","K">>
ICICIBANK == <<"I","C","I","C","I","B","A","N","K">>
YESBANK == <<"Y","E","S","B","A","N","K">>
MandM == <<"M","&","M">>
NSE == <<"N","S","E">>
BSE == <<"B","S","E">>
XSE == <<"X","S","E">>
Banking == <<"B","a","n","k","i","n","g">>

\* the instruments a store is built from (popularity as CalculatePopularityScore
\* assigns it); ICICIBANK is listed on both exchanges
HdfcNse == Stock(HDFCBANK, <<"H","D","F","C"," ","B","a","n","k">>, NSE, Empty, Banking, 96)
IciciNse == Stock(ICICIBANK, <<"I","C","I","C","I"," ","B","a","n","k">>, NSE, Empty, Banking, 94)
IciciBse == Stock(ICICIBANK, <<"I","C","I","C","I"," ","B","a","n","k">>, BSE, Empty, Banking, 94)
YesNse == Stock(YESBANK, <<"Y","e","s"," ","B","a","n","k">>, NSE, <<"y","e","s","p","a","y">>, Empty, 20)
MandMNse == Stock(MandM, <<"M","a","h","i","n","d","r","a">>, NSE, Empty, Empty, 49)

Catalog == { HdfcNse, IciciNse, IciciBse, YesNse, MandMNse }

CatalogDocs == {IndexDoc(s) : s \in Catalog}

\* the stores: up to MaxDocs documents with distinct keys, in any internal order
Indexes ==
    UNION { { s \in [1..n -> CatalogDocs] :
                \A i, j \in 1..n : i # j => s[i].id # s[j].id } : n \in 0..MaxDocs }

\* a second catalog, for the ranking of an exact symbol against substring
\* matches: TATACONSULT holds "tcs", and GOLDENTOBC holds "acc", only inside a
\* word of the name (and of the brand)
TCS == <<"T","C","S">>
TATACONSULT == <<"T","A","T","A","C","O","N","S","U","L","T">>
ACC == <<"A","C","C">>
GOLDENTOBC == <<"G","O","L","D","E","N","T","O","B","C">>

TcsNse == Stock(TCS, <<"T","a","t","a"," ","C","o","n","s","u","l","t">>, NSE, Empty, Empty, 98)
TataConsultNse == Stock(TATACONSULT, <<"T","a","t","a","t","c","s"," ","L","t","d">>, NSE, Empty, Empty, 20)
AccNse == Stock(ACC, <<"A","C","C"," ","L","t","d">>, NSE, Empty, Empty, 20)
GoldenTobcNse == Stock(GOLDENTOBC, <<"G","o","l","d","e","n"," ","T","o","b","a","c","c","o">>, NSE,
                       <<"t","o","b","a","c","c","o">>, Empty, 20)

RankingCatalog == { TcsNse, TataConsultNse, AccNse, GoldenTobcNse }

RankingDocs == {IndexDoc(s) : s \in RankingCatalog}

RankingIndexes ==
    UNION { { s \in [1..n -> RankingDocs] :
                \A i, j \in 1..n : i # j => s[i].id # s[j].id } : n \in 0..MaxDocs }

Queries ==
    { <<"t","o","p"," ","b","a","n","k">>,      \* thematic, sector banking
      <<"T","o","p"," ","A","u","t","o">>,      \* thematic, sector auto
      <<"t","o","p"," ","p","h","a","r","m","a">>,  \* thematic, a sector without members
      <<"t","o","p"," ","i","c","i","c","i">>,  \* thematic phrasing, no sector
      <<"b","a","n","k">>,
      <<"I","C","I","C","I">>,
      <<"y","e","s">>,
      MandM,
      <<"x","y","z">>,
      TCS,
      ACC,
      ToLower(ACC) }

LookupSymbols ==
    { ICICIBANK, ToLower(ICICIBANK), HDFCBANK, MandM, <<"M">>, <<"x","y","z">> }

LookupExchanges == { Empty, NSE, BSE, ToLower(BSE), XSE }

---------------------------------------------------------------------------
(* The engine after construction, and its operations *)

\* what is at the index path: nothing, or a store with its documents
NoStore == [exists |-> FALSE, docs |-> << >>]
StoreAt(docs) == [exists |-> TRUE, docs |-> docs]

Callers == {"a", "b"}

IdleCall == [stage |-> "idle"]

---------------------------------------------------------------------------
(* The state outside the engine, while nothing has used it *)

TokenValidFor == 9      \* Authenticate: time.Since(c.tokenTime) < 9*time.Minute

\* the zero time.Time: no less than TokenValidFor before the process started
ZeroTime == 0 - TokenValidFor

\* NewAngelOneClient(credProvider): no token, the zero token time
NewAngelOneClient == [jwtToken |-> Empty, tokenTime |-> ZeroTime]

NeverLoggedIn == [ever |-> FALSE, at |-> 0]

NoAngelCall ==
    [at |-> 0, before |-> NewAngelOneClient, after |-> NewAngelOneClient,
     loginBefore |-> NeverLoggedIn, err |-> FALSE]

NoFile == [exists |-> FALSE, records |-> << >>]

NotCalled == [status |-> "none", stocks |-> << >>, score |-> 0]

NoTimer == [set |-> FALSE, query |-> Empty]

\* resultsContainer as the page is served
InitialPage == [kind |-> "initial", query |-> Empty]

---------------------------------------------------------------------------
(* The price providers behind /api/stock: Angel One (login with cached     *)
(* token, candle request), Yahoo Finance (cookie, crumb, chart) and mock   *)
(* data. The period of a request selects only the range and the interval   *)
(* asked of a provider and is left out. What the credential provider and   *)
(* the two services answer is the remote state.                            *)

ClientCodeKey == "ANGELONE_CLIENT_CODE"
PasswordKey == "ANGELONE_PASSWORD"
ApiKeyKey == "ANGELONE_API_KEY"

\* the calls out of the process, as they are entered in contacts
Contact(call, arg) == [call |-> call, arg |-> arg]
GetCredential(key) == Contact("GetCredential", key)
LoginRequest == Contact("POST", "/rest/auth/angelbroking/user/v1/loginByPassword")
CandleRequest == Contact("POST", "/rest/secure/angelbroking/historical/v1/getCandleData")
YahooCookieRequest == Contact("GET", "finance.yahoo.com")
YahooCrumbRequest == Contact("GET", "/v1/test/getcrumb")
YahooChartRequest == Contact("GET", "/v8/finance/chart")
MockData == Contact("serveMockData", "")

Jwt == <<"j","w","t">>

\* the tokens of getAngelOneToken: (symbol, token) per exchange
NseTokens == {
        <<<<"R","E","L","I","A","N","C","E">>, <<"2","8","8","5">>>>,
        <<<<"T","C","S">>, <<"1","1","5","3","6">>>>,
        <<<<"H","D","F","C","B","A","N","K">>, <<"1","3","3","3">>>>,
        <<<<"I","N","F","Y">>, <<"1","5","9","4">>>>,
        <<<<"I","C","I","C","I","B","A","N","K">>, <<"4","9","6","3">>>>,
        <<<<"S","B","I","N">>, <<"3","0","4","5">>>>,
        <<<<"B","H","A","R","T","I","A","R","T","L">>, <<"1","0","6","0","4">>>>,
        <<<<"I","T","C">>, <<"1","6","6","0">>>>,
        <<<<"K","O","T","A","K","B","A","N","K">>, <<"1","9","2","2">>>>,
        <<<<"L","T">>, <<"1","1","4","8","3">>>> }

BseTokens == {
        <<<<"R","E","L","I","A","N","C","E">>, <<"5","0","0","3","2","5">>>>,
        <<<<"T","C","S">>, <<"5","3","2","5","4","0">>>>,
        <<<<"H","D","F","C","B","A","N","K">>, <<"5","0","0","1","8","0">>>>,
        <<<<"I","N","F","Y">>, <<"5","0","0","2","0","9">>>>,
        <<<<"I","C","I","C","I","B","A","N","K">>, <<"5","3","2","1","7","4">>>> }

TokensOf(exchange) ==
    IF exchange = NSE THEN NseTokens
    ELSE IF exchange = BSE THEN BseTokens
    ELSE {}

getAngelOneToken(symbol, exchange) ==
    IF \E e \in TokensOf(exchange) : e[1] = symbol
    THEN (CHOOSE e \in TokensOf(exchange) : e[1] = symbol)[2]
    ELSE Empty

\* c.Authenticate() at time t, with the credentials env holds and the reply
\* login of the login endpoint: the client after the call, whether an error
\* is returned, and the calls made
AuthResult(c, err, made) == [client |-> c, err |-> err, contacts |-> made]

\* an Authenticate that stores what the reply carries before it looks at it
AuthenticateStoringFirst(c, t, env, login) ==
    IF c.jwtToken # Empty /\ t - c.tokenTime < TokenValidFor
    THEN AuthResult(c, FALSE, << >>)
    ELSE IF ClientCodeKey \notin env
    THEN AuthResult(c, TRUE, <<GetCredential(ClientCodeKey)>>)
    ELSE IF PasswordKey \notin env
    THEN AuthResult(c, TRUE, <<GetCredential(ClientCodeKey), GetCredential(PasswordKey)>>)
    ELSE IF ApiKeyKey \notin env
    THEN AuthResult(c, TRUE, <<GetCredential(ClientCodeKey), GetCredential(PasswordKey),
                               GetCredential(ApiKeyKey)>>)
    ELSE LET made == <<GetCredential(ClientCodeKey), GetCredential(PasswordKey),
                       GetCredential(ApiKeyKey), LoginRequest>>
         IN IF login.err
            THEN AuthResult(c, TRUE, made)
            ELSE AuthResult([jwtToken |-> login.jwtToken, tokenTime |-> t],
                            ~login.status, made)

Authenticate(c, t, env, login) ==
    IF c.jwtToken # Empty /\ t - c.tokenTime < TokenValidFor
    THEN AuthResult(c, FALSE, << >>)
    ELSE IF ClientCodeKey \notin env
    THEN AuthResult(c, TRUE, <<GetCredential(ClientCodeKey)>>)
    ELSE IF PasswordKey \notin env
    THEN AuthResult(c, TRUE, <<GetCredential(ClientCodeKey), GetCredential(PasswordKey)>>)
    ELSE IF ApiKeyKey \notin env
    THEN AuthResult(c, TRUE, <<GetCredential(ClientCodeKey), GetCredential(PasswordKey),
                               GetCredential(ApiKeyKey)>>)
    ELSE LET made == <<GetCredential(ClientCodeKey), GetCredential(PasswordKey),
                       GetCredential(ApiKeyKey), LoginRequest>>
         IN IF login.err \/ ~login.status
            THEN AuthResult(c, TRUE, made)
            ELSE AuthResult([jwtToken |-> login.jwtToken, tokenTime |-> t], FALSE, made)

\* a candle of the reply: how many cells it has, and its cells 0 and 4 with
\* their JSON types
Candle(n, timeKind, closeKind, close) ==
    [cells |-> n, time |-> timeKind, closeKind |-> closeKind, close |-> close]

\* the conversion loop of GetHistoricalData: the close prices of the candles
\* that have five cells, a string at 0 and a number at 4
RECURSIVE PricePoints(_)
PricePoints(data) ==
    IF data = << >> THEN << >>
    ELSE LET candle == Head(data) IN
         IF candle.cells < 5 \/ candle.time # "string" \/ candle.closeKind # "float64"
         THEN PricePoints(Tail(data))
         ELSE <<candle.close>> \o PricePoints(Tail(data))

HistoryResult(c, err, history, made) ==
    [client |-> c, err |-> err, history |-> history, contacts |-> made]

\* c.GetHistoricalData(...) at time t
GetHistoricalData(c, t, env, login, candles) ==
    LET auth == Authenticate(c, t, env, login)
        made == auth.contacts \o <<GetCredential(ApiKeyKey), CandleRequest>>
    IN IF auth.err
       THEN HistoryResult(auth.client, TRUE, << >>, auth.contacts)
       ELSE IF candles.err \/ ~candles.status
       THEN HistoryResult(auth.client, TRUE, << >>, made)
       ELSE HistoryResult(auth.client, FALSE, PricePoints(candles.data), made)

\* what a provider hands to the handler: an error, or the data
ProviderResult(c, err, data, made) ==
    [client |-> c, err |-> err, data |-> data, contacts |-> made]

NoData == [CurrentPrice |-> 0, PreviousDayClose |-> 0, History |-> << >>]

\* FetchAngelOneData(symbol, exchange, period, credProvider) at time t: a new
\* client is made for the call
FetchAngelOneData(symbol, exchange, t, env, login, candles) ==
    LET c == NewAngelOneClient
        symbolToken == getAngelOneToken(symbol, exchange)
        got == GetHistoricalData(c, t, env, login, candles)
    IN IF symbolToken = Empty
       THEN ProviderResult(c, TRUE, NoData, << >>)
       ELSE IF got.err \/ Len(got.history) = 0
       THEN ProviderResult(got.client, TRUE, NoData, got.contacts)
       ELSE ProviderResult(got.client, FALSE,
                           [CurrentPrice |-> got.history[Len(got.history)],
                            PreviousDayClose |-> got.history[Len(got.history)],
                            History |-> got.history],
                           got.contacts)

\* fetchYahooData(symbol, exchange, period): an error, the data, or a panic
YahooResult(err, panic, data, made) ==
    [err |-> err, panic |-> panic, data |-> data, contacts |-> made]

\* the cookie request, the crumb request (a crumb that contains "html" is
\* refused), the chart request; a chart result is indexed at Quote[0]
\* without a check of its length, which panics when it has no quote
fetchYahooData(symbol, exchange, yahoo) ==
    IF yahoo.cookie = "error"
    THEN YahooResult(TRUE, FALSE, NoData, <<YahooCookieRequest>>)
    ELSE IF yahoo.crumb \in {"error", "html"}
    THEN YahooResult(TRUE, FALSE, NoData, <<YahooCookieRequest, YahooCrumbRequest>>)
    ELSE IF yahoo.chart \in {"error", "status", "undecodable", "no result"}
    THEN YahooResult(TRUE, FALSE, NoData,
                     <<YahooCookieRequest, YahooCrumbRequest, YahooChartRequest>>)
    ELSE IF yahoo.chart = "no quote"
    THEN YahooResult(FALSE, TRUE, NoData,
                     <<YahooCookieRequest, YahooCrumbRequest, YahooChartRequest>>)
    ELSE YahooResult(FALSE, FALSE,
                     [CurrentPrice |-> yahoo.price, PreviousDayClose |-> yahoo.price,
                      History |-> <<yahoo.price>>],
                     <<YahooCookieRequest, YahooCrumbRequest, YahooChartRequest>>)

---------------------------------------------------------------------------
(* The HTTP handlers: /search?q= and /api/stock?symbol=&exchange=. A       *)
(* parameter that is missing reads as the empty string. A response for a   *)
(* found stock names, as its body, where its price data come from.         *)

StatusOK == 200
StatusBadRequest == 400
StatusNotFound == 404

---------------------------------------------------------------------------
(* The remote state: which credentials the environment holds, and what the *)
(* login endpoint, the candle endpoint and Yahoo answer                    *)

AllKeys == {ClientCodeKey, PasswordKey, ApiKeyKey}

Envs == { AllKeys, AllKeys \ {ApiKeyKey}, {} }

LoginOK == [err |-> FALSE, status |-> TRUE, jwtToken |-> Jwt]

\* the request fails; the reply has "status": false; the login is accepted
LoginReplies ==
    { [err |-> TRUE, status |-> FALSE, jwtToken |-> Empty],
      [err |-> FALSE, status |-> FALSE, jwtToken |-> Empty],
      LoginOK }

CandlesOK ==
    [err |-> FALSE, status |-> TRUE,
     data |-> << Candle(6, "string", "float64", 100), Candle(6, "string", "string", 0),
                 Candle(6, "string", "float64", 105) >>]

\* the request fails; "status": false; no candle that can be used; candles
CandleReplies ==
    { [err |-> TRUE, status |-> FALSE, data |-> << >>],
      [err |-> FALSE, status |-> FALSE, data |-> << >>],
      [err |-> FALSE, status |-> TRUE, data |-> << Candle(4, "string", "float64", 100) >>],
      CandlesOK }

YahooReply(cookie, crumb, chart) ==
    [cookie |-> cookie, crumb |-> crumb, chart |-> chart, price |-> 102]

YahooOK == YahooReply("ok", "ok", "ok")

YahooReplies ==
    { YahooReply("error", "ok", "ok"), YahooReply("ok", "html", "ok"),
      YahooReply("ok", "ok", "status"), YahooReply("ok", "ok", "no result"),
      YahooReply("ok", "ok", "no quote"), YahooOK }

Remote(env, login, candles, yahoo) ==
    [env |-> env, login |-> login, candles |-> candles, yahoo |-> yahoo]

AllWell == Remote(AllKeys, LoginOK, CandlesOK, YahooOK)

Remotes ==
    { Remote(env, login, candles, yahoo) :
        env \in Envs, login \in LoginReplies, candles \in CandleReplies,
        yahoo \in YahooReplies }

\* neither a provider, nor the loader, nor the web client has been used
QuietProviders ==
    /\ contacts = << >>
    /\ client = NewAngelOneClient
    /\ angelCall = NoAngelCall
    /\ now = 0
    /\ lastLogin = NeverLoggedIn

QuietLoader ==
    /\ file = NoFile
    /\ loaded = NotCalled

QuietPage ==
    /\ box = Empty
    /\ debounceTimer = NoTimer
    /\ inflight = << >>
    /\ shown = InitialPage

Quiet == QuietProviders /\ QuietLoader /\ QuietPage

Elsewhere ==
    /\ Quiet
    /\ remote = AllWell

\* main has opened the store that was at the index path and is serving; no
\* call is in flight
Serving ==
    /\ built = index
    /\ existing = StoreAt(index)
    /\ stocks = << >>
    /\ pc = "serving"
    /\ closes = 0
    /\ prev = Nil
    /\ calls = [c \in Callers |-> IdleCall]
    /\ http = Nil

Constructed ==
    /\ Elsewhere
    /\ Serving

Init ==
    /\ index \in Indexes
    /\ semantic \in {Nil, SectorMappings}
    /\ op = "none"
    /\ args = << >>
    /\ storeLog = << >>
    /\ path = << >>
    /\ scoredResults = << >>
    /\ results = << >>
    /\ found = Nil
    /\ Constructed

\* the engine over a store built from the second catalog
InitRanking ==
    /\ index \in RankingIndexes
    /\ semantic \in {Nil, SectorMappings}
    /\ op = "none"
    /\ args = << >>
    /\ storeLog = << >>
    /\ path = << >>
    /\ scoredResults = << >>
    /\ results = << >>
    /\ found = Nil
    /\ Constructed

\* a Search that takes the first document out of the store
SearchCallDroppingDoc(query, err) ==
    LET out == EngineSearch(index, semantic, query, err) IN
    /\ op' = "Search"
    /\ args' = <<query>>
    /\ storeLog' = out.storeLog
    /\ path' = out.path
    /\ scoredResults' = out.scoredResults
    /\ results' = out.results
    /\ found' = Nil
    /\ index' = IF index = << >> THEN index ELSE Tail(index)
    /\ UNCHANGED <<semantic, built, calls, pc, existing, stocks, closes, http, contacts, beyond>>

\* e.Search(query): the engine is read, the result is built in the call's locals
SearchCall(query, err) ==
    LET out == EngineSearch(index, semantic, query, err) IN
    /\ op' = "Search"
    /\ args' = <<query>>
    /\ storeLog' = out.storeLog
    /\ path' = out.path
    /\ scoredResults' = out.scoredResults
    /\ results' = out.results
    /\ found' = Nil
    /\ UNCHANGED rest

\* no request of the present call was answered with an error
NoStoreError == \A k \in 1..Len(storeLog) : ~storeLog[k].err

Search ==
    \E query \in Queries, err \in BOOLEAN :
        /\ pc = "serving"
        /\ op = "none"
        /\ SearchCall(query, err)
        /\ prev' = Nil

\* the same query once more, straight after a Search
SearchAgain ==
    \E err \in BOOLEAN :
        /\ pc = "serving"
        /\ op = "Search"
        /\ SearchCall(args[1], err)
        /\ prev' = IF NoStoreError THEN [query |-> args[1], results |-> results] ELSE Nil

GetBySymbol ==
    \E symbol \in LookupSymbols, err \in BOOLEAN :
        LET out == EngineGetBySymbol(index, symbol, err) IN
        /\ pc = "serving"
        /\ op = "none"
        /\ op' = "GetBySymbol"
        /\ args' = <<symbol>>
        /\ storeLog' = out.storeLog
        /\ path' = out.path
        /\ found' = out.found
        /\ scoredResults' = << >>
        /\ results' = << >>
        /\ prev' = Nil
        /\ UNCHANGED rest

GetStock ==
    \E symbol \in LookupSymbols, exchange \in LookupExchanges, err1, err2 \in BOOLEAN :
        LET out == EngineGetStock(index, symbol, exchange, err1, err2) IN
        /\ pc = "serving"
        /\ op = "none"
        /\ op' = "GetStock"
        /\ args' = <<symbol, exchange>>
        /\ storeLog' = out.storeLog
        /\ path' = out.path
        /\ found' = out.found
        /\ scoredResults' = << >>
        /\ results' = << >>
        /\ prev' = Nil
        /\ UNCHANGED rest

\* the caller takes the result; the engine keeps nothing of the call
Return ==
    /\ op # "none"
    /\ op' = "none"
    /\ args' = << >>
    /\ storeLog' = << >>
    /\ path' = << >>
    /\ scoredResults' = << >>
    /\ results' = << >>
    /\ found' = Nil
    /\ prev' = Nil
    /\ UNCHANGED rest

Next == Search \/ SearchAgain \/ GetBySymbol \/ GetStock \/ Return

Spec == Init /\ [][Next]_vars

SpecRanking == InitRanking /\ [][Next]_vars

---------------------------------------------------------------------------
(* Concurrent callers: every request is served on a goroutine of its own,  *)
(* which takes its arguments, runs the engine method and returns. The      *)
(* engine has no lock; all a method assigns is local to the call.          *)

\* the locals of the single caller above
solo == <<op, args, storeLog, path, scoredResults, results, found, prev>>

ConcurrentCalls ==
    { [op |-> "Search", args |-> << <<"b","a","n","k">> >>],
      [op |-> "Search", args |-> << <<"t","o","p"," ","b","a","n","k">> >>],
      [op |-> "GetBySymbol", args |-> <<ICICIBANK>>],
      [op |-> "GetStock", args |-> <<ICICIBANK, BSE>>] }

\* what the method returns over a store and sector mappings, errs saying
\* which of its requests the store answers with an error
CallResult(idx, sem, call, errs) ==
    CASE call.op = "Search" -> EngineSearch(idx, sem, call.args[1], errs[1]).results
      [] call.op = "GetBySymbol" -> EngineGetBySymbol(idx, call.args[1], errs[1]).found
      [] call.op = "GetStock" ->
             EngineGetStock(idx, call.args[1], call.args[2], errs[1], errs[2]).found

\* when a caller may enter a method: under a lock, only with no call in flight
CanBeginExclusive(c) ==
    /\ pc = "serving"
    /\ \A d \in Callers : calls[d].stage = "idle"

\* when a caller may enter a method: the methods take no lock
CanBegin(c) ==
    /\ pc = "serving"
    /\ calls[c].stage = "idle"

\* when a call that has begun may run, and one that has run may return
CanRun(c) == calls[c].stage = "called"
CanReturn(c) == calls[c].stage = "done"

CallBegin(c) ==
    \E call \in ConcurrentCalls :
        /\ CanBegin(c)
        /\ calls' = [calls EXCEPT ![c] = [stage |-> "called", op |-> call.op, args |-> call.args]]
        /\ UNCHANGED <<index, semantic, built, pc, existing, stocks, closes, http, solo, contacts, beyond>>

CallRun(c) ==
    \E errs \in BOOLEAN \X BOOLEAN :
        /\ CanRun(c)
        /\ (calls[c].op # "GetStock" => ~errs[2])
        /\ calls' = [calls EXCEPT ![c] =
                        [stage |-> "done", op |-> calls[c].op, args |-> calls[c].args,
                         errs |-> errs,
                         out |-> CallResult(index, semantic, calls[c], errs)]]
        /\ UNCHANGED <<index, semantic, built, pc, existing, stocks, closes, http, solo, contacts, beyond>>

CallReturn(c) ==
    /\ CanReturn(c)
    /\ calls' = [calls EXCEPT ![c] = IdleCall]
    /\ UNCHANGED <<index, semantic, built, pc, existing, stocks, closes, http, solo, contacts, beyond>>

InitConcurrent ==
    /\ index \in Indexes
    /\ semantic \in {Nil, SectorMappings}
    /\ op = "none"
    /\ args = << >>
    /\ storeLog = << >>
    /\ path = << >>
    /\ scoredResults = << >>
    /\ results = << >>
    /\ found = Nil
    /\ Constructed

NextConcurrent == \E c \in Callers : CallBegin(c) \/ CallRun(c) \/ CallReturn(c)

SpecConcurrent == InitConcurrent /\ [][NextConcurrent]_vars

---------------------------------------------------------------------------
(* Stores opened as they are: a store at the index path is not rebuilt, and *)
(* its documents may have been written without some of the fields, or with *)
(* a field of another type (a text, or several values, where one number or *)
(* one text is read).                                                      *)

\* the document of stock without the fields in absent, and with the fields in
\* odd stored as the type odd gives them
LegacyDoc(stock, absent, odd) ==
    LET doc == IndexDoc(stock)
        kept == DOMAIN doc.stored \ absent
    IN [id |-> doc.id,
        stored |-> [f \in kept |-> doc.stored[f]],
        kinds |-> [f \in kept |-> IF f \in DOMAIN odd THEN odd[f] ELSE doc.kinds[f]],
        terms |-> [f \in TextFields |->
                     IF f \in absent \/ f \in DOMAIN odd THEN {} ELSE doc.terms[f]]]

NoOdd == [f \in {} |-> "string"]

LegacyDocs ==
    { LegacyDoc(HdfcNse, {"sector", "industry", "tags"}, NoOdd),
      LegacyDoc(IciciNse, {"popularity_score", "brand"}, NoOdd),
      LegacyDoc(IciciBse, {}, [f \in {"popularity_score"} |-> "string"]),
      LegacyDoc(YesNse, {"type"}, [f \in {"brand", "tags"} |-> "[]interface{}"]),
      IndexDoc(MandMNse) }

LegacyIndexes ==
    UNION { { s \in [1..n -> LegacyDocs] :
                \A i, j \in 1..n : i # j => s[i].id # s[j].id } : n \in 0..MaxDocs }

InitLegacy ==
    /\ index \in LegacyIndexes
    /\ semantic \in {Nil, SectorMappings}
    /\ op = "none"
    /\ args = << >>
    /\ storeLog = << >>
    /\ path = << >>
    /\ scoredResults = << >>
    /\ results = << >>
    /\ found = Nil
    /\ Constructed

SpecLegacy == InitLegacy /\ [][Next]_vars

---------------------------------------------------------------------------
(* main and NewBleveEngine: the store is opened if one is at the index     *)
(* path and built from the list otherwise.                                 *)

\* the label the sector mappings give a symbol, "" for a symbol in no sector
SectorLabels ==
    [auto |-> <<"a","u","t","o">>,
     banking |-> <<"b","a","n","k","i","n","g">>,
     pharma |-> <<"p","h","a","r","m","a">>]

GetSectorForSymbol(sem, symbol) ==
    LET listing == {i \in 1..Len(SectorNames) : symbol \in Range(sem.stocks[SectorNames[i]])}
    IN IF listing = {} THEN Empty
       ELSE SectorLabels[SectorNames[CHOOSE i \in listing : \A j \in listing : i <= j]]

GetIndustryForSymbol(sem, symbol) == Empty

\* stocks[i].Sector and stocks[i].Industry are filled in where empty
EnrichStock(sem, stock) ==
    [stock EXCEPT !.Sector = IF @ = Empty THEN GetSectorForSymbol(sem, stock.Symbol) ELSE @,
                  !.Industry = IF @ = Empty THEN GetIndustryForSymbol(sem, stock.Symbol) ELSE @]

Enrich(sem, list) ==
    IF sem = Nil THEN list ELSE [i \in 1..Len(list) |-> EnrichStock(sem, list[i])]

\* a batch that keeps the first document indexed under an id
BatchIndexFirstWins(batch, doc) ==
    IF \E k \in 1..Len(batch) : batch[k].id = doc.id
    THEN batch
    ELSE Append(batch, doc)

\* batch.Index(id, stock): an id already in the batch gets the new document
BatchIndex(batch, doc) ==
    IF \E k \in 1..Len(batch) : batch[k].id = doc.id
    THEN [k \in 1..Len(batch) |-> IF batch[k].id = doc.id THEN doc ELSE batch[k]]
    ELSE Append(batch, doc)

RECURSIVE Batch(_, _)
Batch(list, i) ==
    IF i = 0 THEN << >> ELSE BatchIndex(Batch(list, i - 1), IndexDoc(list[i]))

\* index.Batch(batch): the documents get their internal order from the store
Orders(docs) ==
    { s \in [1..Len(docs) -> Range(docs)] : \A i, j \in 1..Len(docs) : i # j => s[i] # s[j] }

\* a construction that builds the store from the list whatever is at the path
StoreAfterOpenReindexing(atPath, list) ==
    Orders(Batch(list, Len(list)))

\* bleve.Open, and bleve.New with the batch when nothing is at the path: the
\* stores the engine may end up with
StoreAfterOpen(atPath, list) ==
    IF atPath.exists
    THEN { atPath.docs }
    ELSE Orders(Batch(list, Len(list)))

\* an instrument as the bulk list has it and as the curated list has it
IciciNseCurated ==
    Stock(ICICIBANK, <<"I","C","I","C","I"," ","B","a","n","k">>, NSE, <<"i","c","i","c","i">>, Banking, 94)

\* two instruments of a curated list whose exchange column is free text
AbNseOnSme == Stock(<<"A","B","-","N","S","E">>, <<"A","b">>, <<"S","M","E">>, Empty, Empty, 20)
AbOnNseSme == Stock(<<"A","B">>, <<"A","b">>, <<"N","S","E","-","S","M","E">>, Empty, Empty, 20)

BuildCatalog == { IciciNse, IciciNseCurated, MandMNse, AbNseOnSme, AbOnNseSme }

StockLists == UNION { [1..n -> BuildCatalog] : n \in 0..MaxDocs }

PersistedStores == { s \in Indexes : Len(s) <= 1 }

InitMain ==
    /\ pc = "start"
    /\ stocks \in StockLists
    /\ existing \in {NoStore} \cup { StoreAt(s) : s \in PersistedStores }
    /\ index = << >>
    /\ semantic = Nil
    /\ built = << >>
    /\ closes = 0
    /\ op = "none"
    /\ args = << >>
    /\ storeLog = << >>
    /\ path = << >>
    /\ scoredResults = << >>
    /\ results = << >>
    /\ found = Nil
    /\ prev = Nil
    /\ calls = [c \in Callers |-> IdleCall]
    /\ http = Nil
    /\ Elsewhere

\* main calls NewBleveEngine(path, allStocks); on an error of the store it
\* gets no engine and ends in log.Fatalf, otherwise it defers engine.Close()
\* and goes on to serve
NewBleveEngine ==
    \E sem \in {Nil, SectorMappings}, storeErr \in BOOLEAN :
        LET list == Enrich(sem, stocks) IN
        /\ pc = "start"
        /\ stocks' = list
        /\ IF storeErr
           THEN /\ pc' = "failed"
                /\ UNCHANGED <<index, semantic, built>>
           ELSE \E idx \in StoreAfterOpen(existing, list) :
                    /\ index' = idx
                    /\ semantic' = sem
                    /\ built' = idx
                    /\ pc' = "serving"
        /\ UNCHANGED <<existing, closes, calls, http, solo, contacts, beyond>>

\* os.Exit: the process ends at once, the deferred calls (here deferred
\* calls of Close, after n that have run) are not run
OsExit(n, deferred) == n

\* log.Fatal(http.ListenAndServe(":8080", nil)), with engine.Close() deferred:
\* ListenAndServe returns only with an error, and log.Fatal ends the process
\* with os.Exit(1)
ListenAndServeReturns ==
    /\ pc = "serving"
    /\ pc' = "exited"
    /\ closes' = OsExit(closes, 1)
    /\ UNCHANGED <<index, semantic, built, existing, stocks, calls, http, solo, contacts, beyond>>

NextMain == NewBleveEngine \/ ListenAndServeReturns

SpecMain == InitMain /\ [][NextMain]_vars

\* the stock lists main is started with when it goes on to serve searches
ServeLists == { << >>, <<IciciNse>>, <<IciciNse, MandMNse>>, <<IciciNseCurated, IciciNse>> }

InitServe ==
    /\ stocks \in ServeLists
    /\ InitMain

\* main from its start: the construction, then the searches it serves
NextServe == NewBleveEngine \/ ListenAndServeReturns \/ Search \/ Return

SpecServe == InitServe /\ [][NextServe]_vars

AngelOne == <<"a","n","g","e","l","o","n","e">>
Yahoo == <<"y","a","h","o","o">>

\* the provider parameter of /api/stock
Providers == {Empty, Yahoo, AngelOne}

\* net/http answers a handler that panics before it has written anything by
\* closing the connection: the request gets no status
NoStatus == 0

\* Handler.GetStock from the provider parameter on, for the stock found: the
\* data comes from Angel One, from Yahoo or from serveMockData; a panic of
\* fetchYahooData ends the handler
PriceData(stock, provider, t, rem) ==
    LET prov == IF provider = Empty THEN Yahoo ELSE provider
        angel == FetchAngelOneData(stock.Symbol, stock.Exchange, t, rem.env, rem.login,
                                   rem.candles)
        yahoo == fetchYahooData(stock.Symbol, stock.Exchange, rem.yahoo)
        first == IF prov = AngelOne THEN angel.contacts ELSE << >>
    IN IF prov = AngelOne /\ ~angel.err
       THEN [panic |-> FALSE, source |-> "Angel One", contacts |-> first]
       ELSE IF yahoo.panic
       THEN [panic |-> TRUE, source |-> "none", contacts |-> first \o yahoo.contacts]
       ELSE IF yahoo.err
       THEN [panic |-> FALSE, source |-> "mock",
             contacts |-> first \o yahoo.contacts \o <<MockData>>]
       ELSE [panic |-> FALSE, source |-> "Yahoo", contacts |-> first \o yahoo.contacts]

\* a handler that takes any parameter value
MissingParamNever(value) == FALSE

\* if query == "" / if symbol == ""
MissingParam(value) == value = Empty

Response(route, params, status, body) ==
    [route |-> route, params |-> params, status |-> status, body |-> body]

HandleSearch ==
    \E query \in Queries \cup {Empty}, err \in BOOLEAN :
        /\ pc = "serving"
        /\ op = "none" /\ http = Nil
        /\ IF MissingParam(query)
           THEN /\ http' = Response("/search", <<query>>, StatusBadRequest,
                                    "Missing query parameter 'q'")
                /\ UNCHANGED <<op, args, storeLog, path, scoredResults, results, found>>
           ELSE LET out == EngineSearch(index, semantic, query, err) IN
                /\ op' = "Search"
                /\ args' = <<query>>
                /\ storeLog' = out.storeLog
                /\ path' = out.path
                /\ scoredResults' = out.scoredResults
                /\ results' = out.results
                /\ found' = Nil
                /\ http' = Response("/search", <<query>>, StatusOK, "results")
        /\ UNCHANGED <<index, semantic, built, prev, calls, pc, existing, stocks, closes, beyond, contacts>>

HandleGetStock ==
    \E symbol \in LookupSymbols \cup {Empty}, exchange \in LookupExchanges,
       err1, err2 \in BOOLEAN :
        /\ pc = "serving"
        /\ op = "none" /\ http = Nil
        /\ IF MissingParam(symbol)
           THEN /\ http' = Response("/api/stock", <<symbol, exchange>>, StatusBadRequest,
                                    "Missing symbol parameter")
                /\ UNCHANGED <<op, args, storeLog, path, scoredResults, results, found>>
                /\ UNCHANGED contacts
           ELSE LET out == IF exchange # Empty
                           THEN EngineGetStock(index, symbol, exchange, err1, err2)
                           ELSE EngineGetBySymbol(index, symbol, err1)
                IN /\ (exchange = Empty => ~err2)
                   /\ op' = IF exchange # Empty THEN "GetStock" ELSE "GetBySymbol"
                   /\ args' = IF exchange # Empty THEN <<symbol, exchange>> ELSE <<symbol>>
                   /\ storeLog' = out.storeLog
                   /\ path' = out.path
                   /\ found' = out.found
                   /\ scoredResults' = << >>
                   /\ results' = << >>
                   /\ IF out.found = Nil
                      THEN /\ http' = Response("/api/stock", <<symbol, exchange>>,
                                               StatusNotFound, "Stock not found")
                           /\ UNCHANGED contacts
                      ELSE \E provider \in Providers :
                             LET data == PriceData(out.found, provider, now, remote) IN
                             /\ http' = IF data.panic
                                        THEN Response("/api/stock",
                                                 <<symbol, exchange, provider>>, NoStatus,
                                                 "connection closed")
                                        ELSE Response("/api/stock",
                                                 <<symbol, exchange, provider>>, StatusOK,
                                                 data.source)
                             /\ contacts' = data.contacts
        /\ UNCHANGED <<index, semantic, built, prev, calls, pc, existing, stocks, closes, beyond>>

\* the handler returns; its locals and the response writer are gone
HandlerReturns ==
    /\ http # Nil
    /\ http' = Nil
    /\ op' = "none"
    /\ args' = << >>
    /\ storeLog' = << >>
    /\ path' = << >>
    /\ scoredResults' = << >>
    /\ results' = << >>
    /\ found' = Nil
    /\ contacts' = << >>
    /\ UNCHANGED <<index, semantic, built, prev, calls, pc, existing, stocks, closes, beyond>>

NextHttp == HandleSearch \/ HandleGetStock \/ HandlerReturns

SpecHttp == Init /\ [][NextHttp]_vars

\* the handlers over a small store, whatever the remote state
ProviderStores ==
    { << >>, <<IndexDoc(YesNse)>>, <<IndexDoc(IciciNse), IndexDoc(IciciBse)>> }

InitProviders ==
    /\ index \in ProviderStores
    /\ semantic = Nil
    /\ op = "none"
    /\ args = << >>
    /\ storeLog = << >>
    /\ path = << >>
    /\ scoredResults = << >>
    /\ results = << >>
    /\ found = Nil
    /\ Serving
    /\ Quiet
    /\ remote \in Remotes

SpecProviders == InitProviders /\ [][NextHttp]_vars

---------------------------------------------------------------------------
(* The Angel One code over time: FetchAngelOneData as Handler.GetStock     *)
(* calls it on provider=angelone, and GetHistoricalData on a client that   *)
(* its maker keeps. The remote state changes at any time.                  *)

AngelSymbols == {ICICIBANK, YESBANK}
AngelExchanges == {NSE, BSE, XSE}

AngelRemotes ==
    { Remote(env, login, candles, YahooOK) :
        env \in {AllKeys, {}}, login \in LoginReplies,
        candles \in {CandlesOK, [err |-> TRUE, status |-> FALSE, data |-> << >>]} }

\* the login endpoint has accepted a login among the calls made
LoggedIn(made, login) == LoginRequest \in Range(made) /\ ~login.err /\ login.status

LastLoginAfter(before, made, login, t) ==
    IF LoggedIn(made, login) THEN [ever |-> TRUE, at |-> t] ELSE before

InitAngelOne ==
    /\ index = << >>
    /\ semantic = Nil
    /\ op = "none"
    /\ args = << >>
    /\ storeLog = << >>
    /\ path = << >>
    /\ scoredResults = << >>
    /\ results = << >>
    /\ found = Nil
    /\ Serving
    /\ Quiet
    /\ remote = AllWell

\* stockData, err = FetchAngelOneData(stock.Symbol, stock.Exchange, period, credProvider)
FetchAngelOneDataCall ==
    \E symbol \in AngelSymbols, exchange \in AngelExchanges :
        LET r == FetchAngelOneData(symbol, exchange, now, remote.env, remote.login,
                                   remote.candles)
        IN /\ op' = "FetchAngelOneData"
           /\ args' = <<symbol, exchange>>
           /\ contacts' = r.contacts
           /\ angelCall' = [at |-> now, before |-> NewAngelOneClient, after |-> r.client,
                            loginBefore |-> lastLogin, err |-> r.err]
           /\ lastLogin' = LastLoginAfter(lastLogin, r.contacts, remote.login, now)
           /\ UNCHANGED <<client, now, remote, loaderVars, pageVars>>
           /\ UNCHANGED <<index, semantic, storeLog, path, scoredResults, results, found,
                          built, prev, calls, pc, existing, stocks, closes, http>>

\* c.GetHistoricalData(exchange, symbolToken, interval, fromDate, toDate) on
\* the client that is kept
GetHistoricalDataCall ==
    LET r == GetHistoricalData(client, now, remote.env, remote.login, remote.candles)
    IN /\ op' = "GetHistoricalData"
       /\ args' = << >>
       /\ contacts' = r.contacts
       /\ client' = r.client
       /\ angelCall' = [at |-> now, before |-> client, after |-> r.client,
                        loginBefore |-> lastLogin, err |-> r.err]
       /\ lastLogin' = LastLoginAfter(lastLogin, r.contacts, remote.login, now)
       /\ UNCHANGED <<now, remote, loaderVars, pageVars>>
       /\ UNCHANGED <<index, semantic, storeLog, path, scoredResults, results, found,
                      built, prev, calls, pc, existing, stocks, closes, http>>

\* a minute passes
Tick ==
    /\ now < MaxClock
    /\ now' = now + 1
    /\ UNCHANGED <<client, angelCall, lastLogin, remote, loaderVars, pageVars, contacts>>
    /\ UNCHANGED <<index, semantic, op, args, storeLog, path, scoredResults, results, found,
                   built, prev, calls, pc, existing, stocks, closes, http>>

\* the environment or the answers of Angel One change
RemoteChanges ==
    \E r \in AngelRemotes :
        /\ r # remote
        /\ remote' = r
        /\ UNCHANGED <<client, angelCall, lastLogin, now, loaderVars, pageVars, contacts>>
        /\ UNCHANGED <<index, semantic, op, args, storeLog, path, scoredResults, results,
                       found, built, prev, calls, pc, existing, stocks, closes, http>>

NextAngelOne == FetchAngelOneDataCall \/ GetHistoricalDataCall \/ Tick \/ RemoteChanges

SpecAngelOne == InitAngelOne /\ [][NextAngelOne]_vars

---------------------------------------------------------------------------
(* The loader: CalculatePopularityScore and LoadStocks. A CSV file is the  *)
(* sequence of its records, each the sequence of its cells; csv.Reader     *)
(* never yields a record without a cell.                                   *)

\* tier 1: most popular stocks; (symbol, score in 1/100)
Tier1 ==
    {
      <<<<"R","E","L","I","A","N","C","E">>, 100>>,
      <<<<"T","C","S">>, 98>>,
      <<<<"H","D","F","C","B","A","N","K">>, 96>>,
      <<<<"I","N","F","Y">>, 95>>,
      <<<<"I","C","I","C","I","B","A","N","K">>, 94>>,
      <<<<"H","I","N","D","U","N","I","L","V","R">>, 93>>,
      <<<<"I","T","C">>, 92>>,
      <<<<"S","B","I","N">>, 91>>,
      <<<<"B","H","A","R","T","I","A","R","T","L">>, 90>>,
      <<<<"K","O","T","A","K","B","A","N","K">>, 90>> }

\* tier 2: well-known large caps
Tier2 ==
    {
      <<<<"B","A","J","F","I","N","A","N","C","E">>, 85>>,
      <<<<"L","T">>, 84>>,
      <<<<"A","S","I","A","N","P","A","I","N","T">>, 83>>,
      <<<<"A","X","I","S","B","A","N","K">>, 82>>,
      <<<<"M","A","R","U","T","I">>, 81>>,
      <<<<"S","U","N","P","H","A","R","M","A">>, 80>>,
      <<<<"T","I","T","A","N">>, 79>>,
      <<<<"N","E","S","T","L","E","I","N","D">>, 78>>,
      <<<<"U","L","T","R","A","C","E","M","C","O">>, 77>>,
      <<<<"W","I","P","R","O">>, 76>>,
      <<<<"T","A","T","A","M","O","T","O","R","S">>, 75>>,
      <<<<"T","A","T","A","P","O","W","E","R">>, 74>>,
      <<<<"T","A","T","A","S","T","E","E","L">>, 73>>,
      <<<<"A","D","A","N","I","P","O","R","T","S">>, 72>>,
      <<<<"A","D","A","N","I","E","N","T">>, 71>>,
      <<<<"O","N","G","C">>, 70>> }

\* tier 3: mid-caps and sector leaders
Tier3 ==
    {
      <<<<"D","I","V","I","S","L","A","B">>, 65>>,
      <<<<"D","R","R","E","D","D","Y">>, 64>>,
      <<<<"C","I","P","L","A">>, 63>>,
      <<<<"T","E","C","H","M">>, 62>>,
      <<<<"H","C","L","T","E","C","H">>, 61>>,
      <<<<"P","O","W","E","R","G","R","I","D">>, 60>>,
      <<<<"N","T","P","C">>, 59>>,
      <<<<"C","O","A","L","I","N","D","I","A">>, 58>>,
      <<<<"B","P","C","L">>, 57>>,
      <<<<"I","O","C">>, 56>>,
      <<<<"G","R","A","S","I","M">>, 55>>,
      <<<<"J","S","W","S","T","E","E","L">>, 54>>,
      <<<<"H","I","N","D","A","L","C","O">>, 53>>,
      <<<<"V","E","D","L">>, 52>>,
      <<<<"I","N","D","U","S","I","N","D","B","K">>, 51>>,
      <<<<"B","A","J","A","J","F","I","N","S","V">>, 50>>,
      <<<<"M","&","M">>, 49>>,
      <<<<"E","I","C","H","E","R","M","O","T">>, 48>>,
      <<<<"H","E","R","O","M","O","T","O","C","O">>, 47>>,
      <<<<"B","R","I","T","A","N","N","I","A">>, 46>>,
      <<<<"S","H","R","E","E","C","E","M">>, 45>>,
      <<<<"U","P","L">>, 44>>,
      <<<<"A","P","O","L","L","O","H","O","S","P">>, 43>>,
      <<<<"P","I","D","I","L","I","T","I","N","D">>, 42>>,
      <<<<"G","O","D","R","E","J","C","P">>, 41>>,
      <<<<"D","A","B","U","R">>, 40>> }

DefaultScore == 20          \* return 0.2

InTier(tier, symbol) == \E e \in tier : e[1] = symbol
ScoreIn(tier, symbol) == (CHOOSE e \in tier : e[1] = symbol)[2]

\* a score that is looked up under the symbol as it is written
CalculatePopularityScoreAsWritten(symbol) ==
    IF InTier(Tier1, symbol) THEN ScoreIn(Tier1, symbol)
    ELSE IF InTier(Tier2, symbol) THEN ScoreIn(Tier2, symbol)
    ELSE IF InTier(Tier3, symbol) THEN ScoreIn(Tier3, symbol)
    ELSE DefaultScore

CalculatePopularityScore(symbol) ==
    LET upper == ToUpper(symbol) IN
    IF InTier(Tier1, upper) THEN ScoreIn(Tier1, upper)
    ELSE IF InTier(Tier2, upper) THEN ScoreIn(Tier2, upper)
    ELSE IF InTier(Tier3, upper) THEN ScoreIn(Tier3, upper)
    ELSE DefaultScore

\* reader.ReadAll() with FieldsPerRecord = 0: every record must have as many
\* cells as the first
ReadAllFails(records) == \E i \in 1..Len(records) : Len(records[i]) # Len(records[1])

SymbolCell == <<"S","y","m","b","o","l">>

\* the header row is dropped when the first cell of the first record is "Symbol"
SkipHeader(records) ==
    IF Len(records) > 0 /\ records[1][1] = SymbolCell THEN Tail(records) ELSE records

\* the records that pass   if len(record) < 4 { continue }
Kept(records) == SelectSeq(records, LAMBDA record : ~(Len(record) < 4))

\* record[4] of a record
HasBrandCell(record) == Len(record) > 4

\* the Stock made of a record
StockOf(record) ==
    [Symbol |-> record[1], Name |-> record[2], Exchange |-> record[3],
     Type |-> record[4], Brand |-> record[5], Sector |-> Empty, Industry |-> Empty,
     Tags |-> Empty, PopularityScore |-> CalculatePopularityScore(record[1])]

Loaded(status, list) == [status |-> status, stocks |-> list, score |-> 0]

\* a LoadStocks that makes its stocks of the records in reverse order
LoadStocksReversed(f) ==
    IF ~f.exists \/ ReadAllFails(f.records)
    THEN Loaded("error", << >>)
    ELSE LET kept == Kept(SkipHeader(f.records)) IN
         IF \E i \in 1..Len(kept) : ~HasBrandCell(kept[i])
         THEN Loaded("panic", << >>)
         ELSE Loaded("ok", [i \in 1..Len(kept) |-> StockOf(kept[Len(kept) + 1 - i])])

\* LoadStocks(filePath): an error of os.Open or of the CSV reader, a panic
\* (index out of range at record[4]), or the stocks
LoadStocks(f) ==
    IF ~f.exists \/ ReadAllFails(f.records)
    THEN Loaded("error", << >>)
    ELSE LET kept == Kept(SkipHeader(f.records)) IN
         IF \E i \in 1..Len(kept) : ~HasBrandCell(kept[i])
         THEN Loaded("panic", << >>)
         ELSE Loaded("ok", [i \in 1..Len(kept) |-> StockOf(kept[i])])

\* the records of the files
HeaderRow ==
    << SymbolCell, <<"N","a","m","e">>, <<"E","x","c","h","a","n","g","e">>,
       <<"T","y","p","e">>, <<"B","r","a","n","d">> >>

RelianceRow ==
    << <<"R","E","L","I","A","N","C","E">>, <<"R","e","l","i","a","n","c","e">>, NSE,
       <<"S","t","o","c","k">>, <<"J","i","o">> >>

TcsRow ==
    << ToLower(TCS), <<"T","a","t","a"," ","C","o","n","s">>, BSE, <<"E","T","F">>, Empty >>

Rows ==
    { HeaderRow, RelianceRow, TcsRow,
      SubSeq(HeaderRow, 1, 4), SubSeq(RelianceRow, 1, 4), SubSeq(TcsRow, 1, 3),
      TcsRow \o << <<"x">> >> }

Files ==
    {NoFile} \cup
    UNION { { [exists |-> TRUE, records |-> rs] : rs \in [1..n -> Rows] } : n \in 0..MaxRows }

\* the symbols a score is asked for: those of the tiers, as written and in
\* lower case, and some of no tier
ScoreSymbols ==
    LET known == {e[1] : e \in Tier1 \cup Tier2 \cup Tier3} IN
    known \cup {ToLower(s) : s \in known}
          \cup {YESBANK, <<"T","c","s">>, <<"T","C","S","X">>, Empty}

InitLoader ==
    /\ index = << >>
    /\ semantic = Nil
    /\ op = "none"
    /\ args = << >>
    /\ storeLog = << >>
    /\ path = << >>
    /\ scoredResults = << >>
    /\ results = << >>
    /\ found = Nil
    /\ Serving
    /\ QuietProviders
    /\ remote = AllWell
    /\ QuietPage
    /\ file \in Files
    /\ loaded = NotCalled

\* stocks, err := LoadStocks(filePath)
LoadStocksCall ==
    /\ op = "none"
    /\ op' = "LoadStocks"
    /\ args' = << >>
    /\ loaded' = LoadStocks(file)
    /\ UNCHANGED <<file, angelVars, pageVars, contacts>>
    /\ UNCHANGED <<index, semantic, storeLog, path, scoredResults, results, found,
                   built, prev, calls, pc, existing, stocks, closes, http>>

\* CalculatePopularityScore(symbol), called on its own (no file at hand: the
\* score does not depend on one)
CalculatePopularityScoreCall ==
    \E symbol \in ScoreSymbols :
        /\ op = "none"
        /\ file = NoFile
        /\ op' = "CalculatePopularityScore"
        /\ args' = <<symbol>>
        /\ loaded' = [status |-> "score", stocks |-> << >>,
                      score |-> CalculatePopularityScore(symbol)]
        /\ UNCHANGED <<file, angelVars, pageVars, contacts>>
        /\ UNCHANGED <<index, semantic, storeLog, path, scoredResults, results, found,
                       built, prev, calls, pc, existing, stocks, closes, http>>

NextLoader == LoadStocksCall \/ CalculatePopularityScoreCall

SpecLoader == InitLoader /\ [][NextLoader]_vars

---------------------------------------------------------------------------
(* The search box of the web client (app.js; the mobile client has the     *)
(* same listener). The page is one thread of events: an input event, the   *)
(* debounce timer firing 300 ms after the last input, and the completion   *)
(* of a fetch, which the network delivers in any order.                    *)

\* String.prototype.trim
RECURSIVE TrimStart(_)
TrimStart(s) ==
    IF s = << >> THEN << >>
    ELSE IF Head(s) = " " THEN TrimStart(Tail(s))
    ELSE s

RECURSIVE TrimEnd(_)
TrimEnd(s) ==
    IF s = << >> THEN << >>
    ELSE IF s[Len(s)] = " " THEN TrimEnd(SubSeq(s, 1, Len(s) - 1))
    ELSE s

Trim(s) == TrimEnd(TrimStart(s))

\* what the user may have in the box
BoxValues ==
    { Empty, <<" ">>, <<"y">>, <<"y","e","s">>, <<"y","e","s"," ">> }

\* resultsContainer.innerHTML: the empty-state prompt, the cards (or "No
\* stocks found.") of the response to a query, the error message
Prompt == [kind |-> "prompt", query |-> Empty]
ResultsFor(query) == [kind |-> "results", query |-> query]
ErrorFor(query) == [kind |-> "error", query |-> query]

\* what fetchStocks(query) puts in the page after its await: the response
\* through displayResults, or the error message of its catch branch; it
\* looks neither at the box nor at the requests made since
fetchStocks(query, ok) == IF ok THEN ResultsFor(query) ELSE ErrorFor(query)

InitPage ==
    /\ index = << >>
    /\ semantic = Nil
    /\ op = "none"
    /\ args = << >>
    /\ storeLog = << >>
    /\ path = << >>
    /\ scoredResults = << >>
    /\ results = << >>
    /\ found = Nil
    /\ Serving
    /\ Quiet
    /\ remote = AllWell

\* the input listener
Input ==
    \E value \in BoxValues :
        LET query == Trim(value) IN
        /\ value # box
        /\ box' = value
        /\ IF Len(query) = 0
           THEN /\ debounceTimer' = NoTimer
                /\ shown' = Prompt
           ELSE /\ debounceTimer' = [set |-> TRUE, query |-> query]
                /\ UNCHANGED shown
        /\ UNCHANGED <<inflight, angelVars, loaderVars, contacts>>
        /\ UNCHANGED <<index, semantic, op, args, storeLog, path, scoredResults, results,
                       found, built, prev, calls, pc, existing, stocks, closes, http>>

\* the timer set by the last input fires: fetchStocks(query) sends its request
TimerFires ==
    /\ debounceTimer.set
    /\ Len(inflight) < MaxInFlight
    /\ inflight' = Append(inflight, debounceTimer.query)
    /\ debounceTimer' = NoTimer
    /\ UNCHANGED <<box, shown, angelVars, loaderVars, contacts>>
    /\ UNCHANGED <<index, semantic, op, args, storeLog, path, scoredResults, results,
                   found, built, prev, calls, pc, existing, stocks, closes, http>>

\* the response to one of the requests under way arrives (or the request
\* fails), and fetchStocks goes on after its await
ResponseArrives ==
    \E i \in 1..Len(inflight), ok \in BOOLEAN :
        /\ shown' = fetchStocks(inflight[i], ok)
        /\ inflight' = SubSeq(inflight, 1, i - 1) \o SubSeq(inflight, i + 1, Len(inflight))
        /\ UNCHANGED <<box, debounceTimer, angelVars, loaderVars, contacts>>
        /\ UNCHANGED <<index, semantic, op, args, storeLog, path, scoredResults, results,
                       found, built, prev, calls, pc, existing, stocks, closes, http>>

NextPage == Input \/ TimerFires \/ ResponseArrives

SpecPage == InitPage /\ [][NextPage]_vars

---------------------------------------------------------------------------
(* Properties *)

Last(s) == s[Len(s)]

\* a search that sent one query to the store and got hits, not an error
Answered == op = "Search" /\ Len(storeLog) = 1 /\ ~storeLog[1].err

\* the hits of that answer, in the order the store returned them
SearchHits == storeLog[1].hits
HitStock(i) == SearchStock(SearchHits[i].fields)
HitPopularity(i) == SearchHits[i].fields["popularity_score"].val

\* where the search put a stock in its result
PosOf(stock) == CHOOSE k \in 1..Len(results) : results[k] = stock

Returned(stock) == \E k \in 1..Len(results) : results[k] = stock

ByPopularityDescending ==
    \A k \in 1..(Len(results) - 1) :
        results[k].PopularityScore >= results[k + 1].PopularityScore

\* the symbol union a thematic query resolves to
\* all stored fields of a document, as a hit carries them
StoredFields(doc) ==
    [f \in DOMAIN doc.stored |-> [kind |-> doc.kinds[f], val |-> doc.stored[f]]]

UnionOf(query) == GetStockSymbolsForSectors(semantic, ExtractSectors(semantic, query))

Thematic == op = "Search" /\ semantic # Nil /\ IsSemanticQuery(semantic, args[1])

StoredPair(symbol, exchange) ==
    \E i \in 1..Len(index) : /\ EqualFold(index[i].stored.symbol, symbol)
                             /\ EqualFold(index[i].stored.exchange, exchange)

StoredSymbol(symbol) ==
    \E i \in 1..Len(index) : EqualFold(index[i].stored.symbol, symbol)

\* C1: in both search paths the sort is stable: two candidates with equal final
\* score appear in the result in the relative order in which the store
\* returned them.
C1_StableSort ==
    Answered =>
        \A i, j \in 1..Len(SearchHits) :
            ( /\ i < j
              /\ Returned(HitStock(i)) /\ Returned(HitStock(j))
              /\ scoredResults[PosOf(HitStock(i))].FinalScore
                    = scoredResults[PosOf(HitStock(j))].FinalScore )
            => PosOf(HitStock(i)) < PosOf(HitStock(j))

\* C2: on the regular path every candidate's final score is
\* textRelevance*0.7 + popularityScore*0.3 and the returned list is ordered by
\* non-increasing final score.
C2_RegularBlendAndOrder ==
    (op = "Search" /\ Last(path) = "regularSearch") =>
        /\ Len(results) = Len(SearchHits)
        /\ results = Stocks(scoredResults)
        /\ \A i \in 1..Len(SearchHits) :
              /\ Returned(HitStock(i))
              /\ scoredResults[PosOf(HitStock(i))].FinalScore
                    = (7 * SearchHits[i].score) + (3 * HitPopularity(i))
        /\ \A k \in 1..(Len(scoredResults) - 1) :
              scoredResults[k].FinalScore >= scoredResults[k + 1].FinalScore

\* C2 witness: a regular search of three hits that the sort had to reorder
C2_Witness ==
    /\ op = "Search" /\ Last(path) = "regularSearch"
    /\ Len(results) = 3
    /\ results # [i \in 1..Len(SearchHits) |-> HitStock(i)]
    /\ scoredResults[1].FinalScore > scoredResults[3].FinalScore

\* C3: on the thematic path the final score of every candidate is its
\* popularityScore alone, and the returned list is ordered by non-increasing
\* popularityScore.
C3_ThematicPopularityOnly ==
    (op = "Search" /\ path = <<"semanticSearch">> /\ Len(storeLog) = 1) =>
        /\ Len(results) = Len(SearchHits)
        /\ \A i \in 1..Len(SearchHits) :
              /\ Returned(HitStock(i))
              /\ scoredResults[PosOf(HitStock(i))].FinalScore = HitPopularity(i)
        /\ ByPopularityDescending

\* C3 witness: a thematic search of three hits that the sort had to reorder
C3_Witness ==
    /\ op = "Search" /\ path = <<"semanticSearch">> /\ Len(storeLog) = 1
    /\ Len(results) = 3
    /\ results # [i \in 1..Len(SearchHits) |-> HitStock(i)]

\* C4: a thematic query that resolves to a non-empty symbol union returns only
\* stored instruments whose symbol is, case-insensitively, in the union, by
\* popularity descending, and nothing else whatever text the query shares with
\* it: "top bank" with banking -> {HDFCBANK, ICICIBANK} over a store of
\* HDFCBANK, ICICIBANK and YESBANK returns exactly [HDFCBANK, ICICIBANK].
C4_ThematicOnlyUnion ==
    (Thematic /\ UnionOf(args[1]) # << >>) =>
        /\ \A k \in 1..Len(results) :
              /\ \E m \in 1..Len(UnionOf(args[1])) :
                    EqualFold(results[k].Symbol, UnionOf(args[1])[m])
              /\ \E i \in 1..Len(index) : results[k] = SearchStock(StoredFields(index[i]))
        /\ ByPopularityDescending
        /\ ( /\ args[1] = <<"t","o","p"," ","b","a","n","k">>
             /\ Range(index) = {IndexDoc(HdfcNse), IndexDoc(IciciNse), IndexDoc(YesNse)}
             /\ Answered )
           => results = <<HdfcNse, IciciNse>>

\* C4 witness: the thematic query returned union members from a store that
\* also holds an instrument outside the union whose name contains "bank"
C4_Witness ==
    /\ Thematic /\ UnionOf(args[1]) # << >>
    /\ Len(results) = 2
    /\ \E i \in 1..Len(index) : index[i].stored.symbol = YESBANK

\* C5: a query classified as thematic from which no sector can be extracted
\* returns the same ordered list as the regular path run directly on it.
C5_NoSectorIsRegular ==
    (Thematic /\ ExtractSectors(semantic, args[1]) = << >>) =>
        /\ Len(storeLog) = 1
        /\ results = regularSearch(index, args[1], storeLog[1].err, << >>).results

\* C5 witness: such a query, answered with two instruments
C5_Witness ==
    /\ Thematic /\ ExtractSectors(semantic, args[1]) = << >>
    /\ Len(results) = 2

\* C6: a thematic query that matches a sector whose symbol union is empty
\* returns an empty list at once: no store query, no regular path.
C6_EmptyUnionNoQuery ==
    (Thematic /\ ExtractSectors(semantic, args[1]) # << >> /\ UnionOf(args[1]) = << >>) =>
        /\ results = << >>
        /\ storeLog = << >>
        /\ path = <<"semanticSearch">>

\* C6 witness: such a query against a store that holds documents
C6_Witness ==
    /\ Thematic /\ ExtractSectors(semantic, args[1]) # << >> /\ UnionOf(args[1]) = << >>
    /\ Len(index) > 0

\* C7: a store error during a search yields an empty list, on either path, and
\* so do zero hits.
C7_ErrorIsEmptyList ==
    (op = "Search" /\ \E i \in 1..Len(storeLog) :
                          storeLog[i].err \/ storeLog[i].hits = << >>)
    => results = << >>

\* C7 witness: the store errs on a thematic query that it has documents for
C7_Witness ==
    /\ op = "Search" /\ path = <<"semanticSearch">>
    /\ Len(storeLog) = 1 /\ storeLog[1].err
    /\ IndexSearch(index, storeLog[1].request) # << >>
    /\ results = << >>

\* C8: for every instrument stored under (symbol, exchange), exchange
\* non-empty, getStock(symbol, exchange) returns the record of exactly that
\* pair, case-insensitively.
C8_GetStockExactPair ==
    ( /\ op = "GetStock" /\ args[2] # Empty
      /\ StoredPair(args[1], args[2])
      /\ ~storeLog[1].err )
    => /\ found # Nil
       /\ EqualFold(found.Symbol, args[1])
       /\ EqualFold(found.Exchange, args[2])

\* the store's answer to the symbol-and-exchange query was not a hit
NoConjunctiveHit ==
    /\ op = "GetStock"
    /\ args[2] = Empty \/ storeLog[1].err \/ storeLog[1].hits = << >>

\* C9: whenever the symbol-and-exchange query produces no hit (exchange empty,
\* no matching record, or a store error) getStock returns exactly what
\* getBySymbol(symbol) returns; an unknown exchange of a symbol getBySymbol
\* knows yields that symbol's record on another exchange, not not-found.
C9_GetStockFallsBack ==
    NoConjunctiveHit =>
        /\ found = EngineGetBySymbol(index, args[1], Last(storeLog).err).found
        /\ ( /\ args[2] # Empty
             /\ \A i \in 1..Len(storeLog) : ~storeLog[i].err
             /\ EngineGetBySymbol(index, args[1], FALSE).found # Nil )
           => /\ found # Nil
              /\ ~EqualFold(found.Exchange, args[2])

\* C9 witness: the unknown exchange XSE of a stored symbol, answered with its
\* record on another exchange
C9_Witness ==
    /\ NoConjunctiveHit
    /\ args[2] = XSE
    /\ found # Nil
    /\ EqualFold(found.Symbol, args[1])

\* C10: getBySymbol returns the first hit of an exact, case-insensitive match
\* on the symbol; it returns nil exactly when no stored instrument has that
\* symbol or the store query erred, and never an instrument whose symbol
\* differs from the requested one.
C10_GetBySymbolExact ==
    op = "GetBySymbol" =>
        /\ (found = Nil) <=> (storeLog[1].err \/ ~StoredSymbol(args[1]))
        /\ found # Nil => EqualFold(found.Symbol, args[1])

\* the stored document a returned stock was read from
StoredDoc(stock) == CHOOSE d \in Range(index) : d.id = DocID(stock)

\* a document that the query reaches through the wildcard clauses alone
WildcardOnly(doc, query) ==
    LET clauses == RegularQuery(query).clauses IN
    /\ \A k \in 1..3 : ~LeafMatches(doc, clauses[k])
    /\ \E k \in 4..6 : LeafMatches(doc, clauses[k])

ExactAbove(i, j) ==
    /\ EqualFold(scoredResults[i].Stock.Symbol, args[1])
    /\ WildcardOnly(StoredDoc(scoredResults[j].Stock), args[1])

\* C11: on the regular path, when the query equals an instrument's symbol
\* (letter case aside), that instrument's final score is strictly greater than
\* the final score of every instrument of equal popularity that the query
\* reaches through the wildcard (substring) clauses alone.
C11_ExactSymbolOutscoresWildcard ==
    (Answered /\ Last(path) = "regularSearch") =>
        \A i, j \in 1..Len(scoredResults) :
            ( /\ ExactAbove(i, j)
              /\ scoredResults[i].Stock.PopularityScore = scoredResults[j].Stock.PopularityScore )
            => scoredResults[i].FinalScore > scoredResults[j].FinalScore

\* the query "acc" finds ACC by its symbol and GOLDENTOBC, of the same
\* popularity, by a substring of its name
C11_Witness ==
    /\ Answered /\ Last(path) = "regularSearch"
    /\ args[1] = ToLower(ACC)
    /\ \E i, j \in 1..Len(scoredResults) :
           /\ ExactAbove(i, j)
           /\ scoredResults[i].Stock = AccNse
           /\ scoredResults[j].Stock = GoldenTobcNse
           /\ scoredResults[i].Stock.PopularityScore = scoredResults[j].Stock.PopularityScore

Holds(stock) == IndexDoc(stock) \in Range(index)

ScoredOf(stock) == scoredResults[PosOf(stock)]

\* C12: for the query "TCS" over a store holding A (symbol TCS, popularity
\* 0.98) and B (symbol TATACONSULT, popularity 0.20, "tcs" only inside a word
\* of its name), A is matched by the exact-symbol clause, B by the
\* name-substring clause alone, their final scores are 12.194 and 1.110 under
\* the weights 10, 5, 3, 2, 1.5, 1 and the 0.7/0.3 blend, and A precedes B in
\* the returned list.
C12_TcsAboveTataConsult ==
    (Answered /\ args[1] = TCS /\ Holds(TcsNse) /\ Holds(TataConsultNse)) =>
        /\ Returned(TcsNse) /\ Returned(TataConsultNse)
        /\ LeafMatches(IndexDoc(TcsNse), RegularQuery(TCS).clauses[1])
        /\ WildcardOnly(IndexDoc(TataConsultNse), TCS)
        /\ \A k \in {4, 6} : ~LeafMatches(IndexDoc(TataConsultNse), RegularQuery(TCS).clauses[k])
        /\ ScoredOf(TcsNse).FinalScore = 12194
        /\ ScoredOf(TataConsultNse).FinalScore = 1110
        /\ PosOf(TcsNse) < PosOf(TataConsultNse)

\* the store lists B before A, and the search still returns A first
C12_Witness ==
    /\ Answered /\ args[1] = TCS
    /\ \E i, j \in 1..Len(index) :
           i < j /\ index[i] = IndexDoc(TataConsultNse) /\ index[j] = IndexDoc(TcsNse)
    /\ Returned(TcsNse) /\ Returned(TataConsultNse)
    /\ PosOf(TcsNse) < PosOf(TataConsultNse)

\* C13: Search reads only: whatever calls were made, the store holds the
\* documents it held when construction ended, and a Search that repeats the
\* query of the Search before it (the store answering both) returns the same
\* list in the same order.
C13_SearchReadOnlyIdempotent ==
    /\ index = built
    /\ (op = "Search" /\ prev # Nil /\ NoStoreError) =>
           (prev.query = args[1] /\ results = prev.results)

\* a query repeated, with two or more results both times
C13_Witness ==
    /\ op = "Search" /\ prev # Nil /\ NoStoreError
    /\ prev.query = args[1]
    /\ Len(results) >= 2
    /\ results = prev.results
    /\ index = built

\* C14: with calls of several callers in flight, no call writes the store
\* (it holds what construction left), each finished call holds the result the
\* method gives on that store by itself, and every caller can take its next
\* step whatever the others are doing.
C14_ConcurrentCallsIndependent ==
    /\ index = built
    /\ \A c \in Callers :
           /\ calls[c].stage = "done" =>
                  calls[c].out = CallResult(built, semantic, calls[c], calls[c].errs)
           /\ calls[c].stage = "idle" => CanBegin(c)
           /\ calls[c].stage = "called" => CanRun(c)
           /\ calls[c].stage = "done" => CanReturn(c)

\* a lookup that began and ended while a search was in flight; both found
\* what they find alone
C14_Witness ==
    /\ calls["a"].stage = "done" /\ calls["a"].op = "Search"
    /\ Len(calls["a"].out) >= 2
    /\ calls["b"].stage = "done" /\ calls["b"].op = "GetStock"
    /\ calls["b"].out # Nil
    /\ calls["b"].out.Symbol = ICICIBANK /\ calls["b"].out.Exchange = BSE
    /\ index = built

\* the list as NewBleveEngine indexes it (the enrichment is idempotent)
Written == Enrich(semantic, stocks)

\* C15: when a store is at the path, the engine holds that store, unchanged,
\* whatever the list; when none is, the engine holds a new store in which
\* every instrument of the list has one document under its key
\* symbol-exchange, and every document is an instrument of the list.
C15_ConstructionReopensOrBuilds ==
    pc = "serving" =>
        IF existing.exists
        THEN index = existing.docs
        ELSE /\ \A i \in 1..Len(Written) :
                    Cardinality({k \in 1..Len(index) : index[k].id = DocID(Written[i])}) = 1
             /\ \A k \in 1..Len(index) :
                    \E i \in 1..Len(Written) : index[k] = IndexDoc(Written[i])

\* a store was at the path and the list names instruments it does not hold
C15_Witness ==
    /\ pc = "serving"
    /\ existing.exists /\ Len(existing.docs) = 1
    /\ index = existing.docs
    /\ Len(stocks) >= 2
    /\ \A i \in 1..Len(stocks) : DocID(stocks[i]) # index[1].id

Pair(stock) == <<stock.Symbol, stock.Exchange>>

\* the last instrument of the list with the pair of stock
LastOfPair(stock) ==
    Written[CHOOSE i \in 1..Len(Written) :
                /\ Pair(Written[i]) = Pair(stock)
                /\ \A j \in 1..Len(Written) : Pair(Written[j]) = Pair(stock) => j <= i]

C17_RoundTripAllFields ==
    /\ op = "Search" => \A k \in 1..Len(results) : IndexDoc(results[k]) \in Range(index)
    /\ (op \in {"GetBySymbol", "GetStock"} /\ found # Nil) => IndexDoc(found) \in Range(index)

\* the part of it that is about Search
SearchRoundTrip ==
    op = "Search" => \A k \in 1..Len(results) : IndexDoc(results[k]) \in Range(index)

\* the attribute of models.Stock a stored field is read into
Attribute ==
    [symbol |-> "Symbol", name |-> "Name", exchange |-> "Exchange", type |-> "Type",
     brand |-> "Brand", sector |-> "Sector", industry |-> "Industry", tags |-> "Tags",
     popularity_score |-> "PopularityScore"]

Unusable(fields, f) == f \notin DOMAIN fields \/ fields[f].kind # KindOf(f)

\* stock is what result assembly owes for a hit with these fields, of which
\* the fields in asked are read
Assembled(stock, fields, asked) ==
    \A f \in asked :
        IF Unusable(fields, f)
        THEN stock[Attribute[f]] = (IF f \in NumericFields THEN 0 ELSE Empty)
        ELSE stock[Attribute[f]] = fields[f].val

\* C18: every hit becomes an instrument, none is dropped; an attribute whose
\* field is absent from the hit, or is not of the type read, is the zero
\* value ("" for text, 0 for popularityScore), and the other attributes are
\* the hit's values. So for the lists of both search paths and for the
\* instrument a lookup returns.
C18_MissingFieldIsZeroValue ==
    /\ (op = "Search" /\ NoStoreError /\ Len(storeLog) = 1) =>
           /\ Len(results) = Len(SearchHits)
           /\ \A i \in 1..Len(SearchHits) :
                  \E k \in 1..Len(results) :
                      Assembled(results[k], SearchHits[i].fields, SearchFields)
    /\ (op \in {"GetBySymbol", "GetStock"} /\ storeLog # << >>
           /\ ~Last(storeLog).err /\ Last(storeLog).hits # << >>) =>
           /\ found # Nil
           /\ Assembled(found, Last(storeLog).hits[1].fields, LookupFields)

\* a search whose hits lack a field and hold a field of another type
C18_Witness ==
    /\ op = "Search" /\ NoStoreError /\ Len(storeLog) = 1
    /\ Len(results) = Len(SearchHits)
    /\ \E i, j \in 1..Len(SearchHits), k \in 1..Len(results) :
           /\ "popularity_score" \notin DOMAIN SearchHits[i].fields
           /\ "tags" \in DOMAIN SearchHits[j].fields
           /\ SearchHits[j].fields["tags"].kind # "string"
           /\ Assembled(results[k], SearchHits[i].fields, SearchFields)
           /\ results[k].PopularityScore = 0
           /\ results[k].Symbol = ICICIBANK

\* C19: a process that constructed the engine and went on to serve has run
\* the store's Close once by the time it has exited.
C19_ClosedOnceAtExit ==
    pc = "exited" => closes = 1

\* C20: a /search request with q missing or empty is answered 400 and no
\* engine method has been called; Search is never called with the empty
\* query; a /api/stock request with the symbol missing or empty is answered
\* 400 and no lookup has been called.
C20_EmptyParameterRejected ==
    /\ (http # Nil /\ http.params[1] = Empty) =>
           /\ http.status = StatusBadRequest
           /\ op = "none" /\ storeLog = << >>
    /\ op = "Search" => args[1] # Empty
    /\ op \in {"GetBySymbol", "GetStock"} => args[1] # Empty

\* both routes have rejected an empty parameter (with an exchange given, for
\* /api/stock)
C20_Witness ==
    /\ http # Nil
    /\ http.route = "/api/stock"
    /\ http.params = <<Empty, NSE>>
    /\ http.status = StatusBadRequest
    /\ op = "none"

---------------------------------------------------------------------------
(* C21 *)

AngelOneContacts ==
    {GetCredential(ClientCodeKey), GetCredential(PasswordKey), GetCredential(ApiKeyKey),
     LoginRequest, CandleRequest}

YahooContacts == {YahooCookieRequest, YahooCrumbRequest, YahooChartRequest}

\* /api/stock has found the stock and has answered or given up
AnsweredFound == http # Nil /\ http.route = "/api/stock" /\ found # Nil

\* the order of the providers: Angel One only on provider=angelone and before
\* anything else; Yahoo whenever Angel One gave no data; mock data last, and
\* exactly when the response carries mock data
FallbackOrder ==
    AnsweredFound =>
        LET n == Len(contacts)
            yahooAt == {i \in 1..n : contacts[i] \in YahooContacts}
            angelAt == {i \in 1..n : contacts[i] \in AngelOneContacts}
        IN /\ (angelAt # {} => http.params[3] = AngelOne)
           /\ \A i \in angelAt, j \in yahooAt : i < j
           /\ (http.body # "Angel One" => contacts[1 + Cardinality(angelAt)] = YahooCookieRequest)
           /\ (http.body = "Angel One" => yahooAt = {})
           /\ \A i \in 1..n : contacts[i] = MockData => i = n
           /\ (http.body = "mock" <=> (n > 0 /\ contacts[n] = MockData))
           /\ (http.body = "Yahoo" => contacts[n] = YahooChartRequest)

\* C21: for every found stock the /api/stock request ends with a 200 data
\* response: when the providers tried have failed, mock data is served, and a
\* failure of a provider is never what the request ends with
C21_FoundStockAnswered200 ==
    AnsweredFound => http.status = StatusOK


---------------------------------------------------------------------------
(* C22 *)

\* the client of the last call held a token that Authenticate takes as valid
HeldValidToken ==
    /\ angelCall.before.jwtToken # Empty
    /\ angelCall.at - angelCall.before.tokenTime < TokenValidFor

\* a client that is kept logs in only without a token that is still valid,
\* and with one it sends its candle request without a login
ClientReusesToken ==
    op \in {"GetHistoricalData", "FetchAngelOneData"} =>
        /\ LoginRequest \in Range(contacts) => ~HeldValidToken
        /\ HeldValidToken => contacts = <<GetCredential(ApiKeyKey), CandleRequest>>

\* C22: an Angel One data request that is made less than 9 minutes after a
\* login has succeeded reuses the token of that login and performs no login
C22_NoLoginWhileTokenValid ==
    ( /\ op = "FetchAngelOneData"
      /\ angelCall.loginBefore.ever
      /\ angelCall.at - angelCall.loginBefore.at < TokenValidFor )
    => LoginRequest \notin Range(contacts)


---------------------------------------------------------------------------
(* C23 *)

\* LoadStocks has been called on a CSV file that the reader accepts and whose
\* first record is a header of at least five columns
HeaderedFileLoaded ==
    /\ op = "LoadStocks"
    /\ file.exists
    /\ ~ReadAllFails(file.records)
    /\ Len(file.records) > 0
    /\ file.records[1][1] = SymbolCell
    /\ Len(file.records[1]) >= 5

\* C23: LoadStocks on a CSV whose first row is the header returns one Stock
\* per data row, in file order, with Symbol, Name, Exchange, Type and Brand
\* from columns 0..4 of the row and the popularity score of its symbol; the
\* header row produces no Stock
C23_HeaderedCsvLoadsRowsInOrder ==
    HeaderedFileLoaded =>
        /\ loaded.status = "ok"
        /\ Len(loaded.stocks) = Len(file.records) - 1
        /\ \A i \in 1..Len(loaded.stocks) :
             LET row == file.records[i + 1]
                 stock == loaded.stocks[i]
             IN /\ stock.Symbol = row[1]
                /\ stock.Name = row[2]
                /\ stock.Exchange = row[3]
                /\ stock.Type = row[4]
                /\ stock.Brand = row[5]
                /\ stock.PopularityScore = CalculatePopularityScore(row[1])

\* header, RELIANCE, tcs: two stocks, in that order, scored 1.0 and 0.98
C23_Witness ==
    /\ HeaderedFileLoaded
    /\ file.records = <<HeaderRow, RelianceRow, TcsRow>>
    /\ Len(loaded.stocks) = 2
    /\ loaded.stocks[1].Brand = <<"J","i","o">>
    /\ loaded.stocks[1].PopularityScore = 100
    /\ loaded.stocks[2].Symbol = ToLower(TCS)
    /\ loaded.stocks[2].PopularityScore = 98


---------------------------------------------------------------------------
(* C24 *)

KnownSymbols == {e[1] : e \in Tier1 \cup Tier2 \cup Tier3}

\* no symbol is listed twice, in one tier or in two
OneTierEach ==
    \A e, f \in Tier1 \cup Tier2 \cup Tier3 : e[1] = f[1] => e = f

---------------------------------------------------------------------------
(* C25 *)

\* list holds the stocks of the hits, each hit once, in some order
PermutationOfHits(list, hits) ==
    /\ Len(list) = Len(hits)
    /\ \E p \in Permutations(1..Len(hits)) :
         \A i \in 1..Len(hits) : list[i] = SearchStock(hits[p[i]].fields)

\* C25: in both search paths the returned list is a permutation of the hits
\* the store returned for the one query issued (no hit dropped, none twice),
\* and it never has more than 100 entries
C25_ResultsPermuteHits ==
    op = "Search" =>
        /\ Len(storeLog) <= 1
        /\ Len(results) <= SearchSize
        /\ Len(storeLog) = 0 => results = << >>
        /\ Len(storeLog) = 1 =>
             /\ storeLog[1].request.size = SearchSize
             /\ Len(storeLog[1].hits) <= storeLog[1].request.size
             /\ PermutationOfHits(results, storeLog[1].hits)

\* a thematic search whose three hits come back in another order than the
\* store returned them
C25_Witness ==
    /\ op = "Search"
    /\ path = <<"semanticSearch">>
    /\ Len(storeLog) = 1
    /\ Len(storeLog[1].hits) = 3
    /\ results[1] # SearchStock(storeLog[1].hits[1].fields)
    /\ PermutationOfHits(results, storeLog[1].hits)


---------------------------------------------------------------------------
(* C26 *)

\* the query is phrased as a thematic one
PhrasedThematically(query) == IsSemanticQuery(SectorMappings, query)

\* C26: a construction that could not load the sector mappings still returns
\* an engine, and that engine answers every query, thematic phrasing
\* included, through the regular path; a construction that returns an error
\* (a failure of the store) returns no engine
C26_NoResolverRegularPath ==
    /\ pc = "failed" => (index = << >> /\ semantic = Nil /\ built = << >> /\ op = "none")
    /\ (semantic = Nil /\ op = "Search") =>
          /\ pc \in {"serving", "exited"}
          /\ path = <<"regularSearch">>
          /\ Len(storeLog) = 1
          /\ storeLog[1].request = SearchRequest(RegularQuery(args[1]), SearchFields, SearchSize)
          /\ (~storeLog[1].err => PermutationOfHits(results, storeLog[1].hits))

\* an engine built without the mappings has answered a thematic query with
\* stocks found by the regular path
C26_Witness ==
    /\ pc = "serving"
    /\ semantic = Nil
    /\ op = "Search"
    /\ PhrasedThematically(args[1])
    /\ path = <<"regularSearch">>
    /\ results # << >>


---------------------------------------------------------------------------
(* C27 *)

\* /api/stock has answered or given up
StockRequestEnded == http # Nil /\ http.route = "/api/stock"

\* the lookup comes before the providers: nothing is contacted without a
\* stock found, a 400 comes before any lookup, and the lookup is GetStock
\* exactly when the exchange parameter is not empty
LookupBeforeProviders ==
    StockRequestEnded =>
        /\ http.status = StatusBadRequest => (op = "none" /\ contacts = << >> /\ http.params[1] = Empty)
        /\ http.status = StatusNotFound => (found = Nil /\ contacts = << >>)
        /\ contacts # << >> => found # Nil
        /\ (http.status # StatusBadRequest /\ http.params[2] # Empty) =>
               (op = "GetStock" /\ args = <<http.params[1], http.params[2]>>)
        /\ (http.status # StatusBadRequest /\ http.params[2] = Empty) =>
               (op = "GetBySymbol" /\ args = <<http.params[1]>>)
        /\ (found = Nil /\ http.status # StatusBadRequest) => http.status = StatusNotFound

\* C27: every /api/stock request ends with exactly one of 400, 404 or a 200
\* data response (the lookup preceding any provider call)
C27_EndsWith400Or404Or200 ==
    StockRequestEnded => http.status \in {StatusBadRequest, StatusNotFound, StatusOK}


---------------------------------------------------------------------------
(* C28 *)

\* the last call asked for a pair the token table does not have
PairWithoutToken ==
    op = "FetchAngelOneData" /\ getAngelOneToken(args[1], args[2]) = Empty

\* the last call ended with an error that Authenticate returned: no candle
\* request was reached
AuthenticateFailed ==
    /\ op \in {"GetHistoricalData", "FetchAngelOneData"}
    /\ ~PairWithoutToken
    /\ angelCall.err
    /\ CandleRequest \notin Range(contacts)

\* C28: FetchAngelOneData resolves the symbol token first: for a pair absent
\* from the token table it returns an error with no credential read, no login
\* and no candle request; and a failed Authenticate leaves the token and the
\* token time of its client as they were
C28_TokenFirstFailedLoginKeepsToken ==
    /\ PairWithoutToken => (angelCall.err /\ contacts = << >> /\ angelCall.after = angelCall.before)
    /\ AuthenticateFailed =>
          /\ angelCall.after = angelCall.before
          /\ (op = "GetHistoricalData" => client = angelCall.before)

\* a kept client whose token has run out has asked for a login that the
\* endpoint refused, and still holds the old token
C28_Witness ==
    /\ AuthenticateFailed
    /\ op = "GetHistoricalData"
    /\ LoginRequest \in Range(contacts)
    /\ client.jwtToken = Jwt
    /\ angelCall.at - client.tokenTime >= TokenValidFor


---------------------------------------------------------------------------
(* C29 *)

\* the page is at rest: no timer is set and no request is under way
PageAtRest == ~debounceTimer.set /\ inflight = << >>

\* the debounce: the one timer there is stands for the last input, whose
\* trimmed value is not empty, and emptying the box leaves no timer
Debounced ==
    /\ debounceTimer.set => (debounceTimer.query = Trim(box) /\ Trim(box) # Empty)
    /\ Trim(box) = Empty => ~debounceTimer.set

\* C29: once all responses have arrived, what the page shows corresponds to
\* the most recent input (the empty-state message if the box was last
\* emptied), in whatever order the responses of the requests have arrived
C29_ShownIsForLastInput ==
    (PageAtRest /\ shown # InitialPage) =>
        IF Trim(box) = Empty
        THEN shown = Prompt
        ELSE shown.kind \in {"results", "error"} /\ shown.query = Trim(box)


---------------------------------------------------------------------------
(* C30 *)

\* LoadStocks has been called on a file that the CSV reader has parsed
ParsedFileLoaded ==
    /\ op = "LoadStocks"
    /\ file.exists
    /\ ~ReadAllFails(file.records)

\* the records of at least four cells that LoadStocks goes through are turned
\* into stocks when each has a fifth cell, in file order
LoadsWhenBrandPresent ==
    (ParsedFileLoaded /\ \A i \in 1..Len(file.records) : Len(file.records[i]) # 4) =>
        /\ loaded.status = "ok"
        /\ Len(loaded.stocks) = Len(Kept(SkipHeader(file.records)))

\* C30: LoadStocks never faults on a successfully parsed CSV: a record with
\* too few fields is skipped, every other record is loaded, and a record of
\* exactly 4 fields causes no out-of-range access
C30_LoadStocksNeverFaults ==
    ParsedFileLoaded => loaded.status = "ok"


====
